---- MODULE Spec2Model ----
(***************************************************************************)
(* Edge surveillance node (src/edge/survi/python/main.py): the capture     *)
(* loop's event FSM and finalize step, the analysis worker, the cloud      *)
(* staging worker, and the package directory events/final/<event_id>/      *)
(* they write.                                                             *)
(*                                                                         *)
(* Time is counted in ticks of one second and the capture loop produces    *)
(* one frame per tick (target_fps = 1), so ts is at once the clock and the *)
(* frame number; event ids (int(ts * 1000) in the code) are the tick of    *)
(* the frame that starts the event.  Confidences and brightness are in     *)
(* hundredths.  File-system calls on the package and cloud directories are *)
(* taken to succeed; the runner, ffmpeg and the camera are inputs.         *)
(***************************************************************************)
EXTENDS Integers, Sequences, FiniteSets, TLC

\* ---------------------------------------------------------------- bounds
\* Number of frames the capture loop reads.
MaxTs == 15

\* Capacities of _analysis_q and _cloud_q (maxsize=64 in the code), scaled
\* down so that queue.Full happens within MaxTs frames.
AnalysisQMax == 1
CloudQMax == 1

\* ------------------------------------------------------------- constants
EVENT_ON_FRAMES == 3
EVENT_OFF_SECONDS == 2
POSTROLL_SECONDS == 3
BRIGHTNESS_MIN == 20
BLUR_VAR_MIN == 60
CPU_HIGH_PCT == 85
NET_SLOW_MS == 250
COMPLETE_THRESH == 70
SEGMENT_SECONDS == 1
PREROLL_SECONDS == 30
\* max_event_seconds of config.json (300 when the key is missing), set low
\* enough for an event to outlast it within MaxTs frames.
MAX_EVENT_SEC == 4
RING_KEEP_SEC == PREROLL_SECONDS + MAX_EVENT_SEC + POSTROLL_SECONDS + 15

Ids == 1..MaxTs
NoEvent == 0
Absent == "<absent>"

Max(a, b) == IF a >= b THEN a ELSE b

\* Averaged router inputs of a frame: below and above each threshold, and
\* an unknown cpu average (-1).
BrightnessVals == {10, 30}
BlurVals == {50, 70}
CpuVals == {-1, 50, 90}

\* ---------------------------------------------------------------- router
\* Faulty variant: a high cpu average sends the event to the cloud before the
\* quality of the picture is looked at.
_router_CpuFirst(b, bl, cpu, net_ms, cloud_ok) ==
  LET r1 == IF b < BRIGHTNESS_MIN THEN <<"low_brightness">> ELSE <<>>
      r2 == IF bl < BLUR_VAR_MIN THEN Append(r1, "blurry") ELSE r1
      r3 == IF cpu >= 0 /\ cpu > CPU_HIGH_PCT THEN Append(r2, "cpu_high") ELSE r2
      reasons ==
        IF ~cloud_ok THEN Append(r3, "net_unconfigured")
        ELSE IF net_ms < 0 THEN Append(r3, "net_down")
        ELSE IF net_ms > NET_SLOW_MS THEN Append(r3, "net_slow")
        ELSE r3
      has(t) == \E i \in 1..Len(reasons) : reasons[i] = t
  IN  IF has("cpu_high") THEN <<"RUN_CLOUD", reasons>>
      ELSE IF has("low_brightness") /\ has("blurry")
           THEN <<"RECORD_ONLY", reasons>>
      ELSE IF has("blurry") \/ has("low_brightness")
           THEN <<"RUN_CLOUD", reasons>>
      ELSE <<"RUN_LOCAL", reasons>>

\* Faulty variant: an unreachable cloud forces local inference.
_router_NetDownLocal(b, bl, cpu, net_ms, cloud_ok) ==
  LET r1 == IF b < BRIGHTNESS_MIN THEN <<"low_brightness">> ELSE <<>>
      r2 == IF bl < BLUR_VAR_MIN THEN Append(r1, "blurry") ELSE r1
      r3 == IF cpu >= 0 /\ cpu > CPU_HIGH_PCT THEN Append(r2, "cpu_high") ELSE r2
      reasons ==
        IF ~cloud_ok THEN Append(r3, "net_unconfigured")
        ELSE IF net_ms < 0 THEN Append(r3, "net_down")
        ELSE IF net_ms > NET_SLOW_MS THEN Append(r3, "net_slow")
        ELSE r3
      has(t) == \E i \in 1..Len(reasons) : reasons[i] = t
  IN  IF has("low_brightness") /\ has("blurry") THEN <<"RECORD_ONLY", reasons>>
      ELSE IF has("net_down") THEN <<"RUN_LOCAL", reasons>>
      ELSE IF has("cpu_high") \/ has("blurry") \/ has("low_brightness")
           THEN <<"RUN_CLOUD", reasons>>
      ELSE <<"RUN_LOCAL", reasons>>

\* _router: (decision, reasons).
_router(b, bl, cpu, net_ms, cloud_ok) ==
  LET r1 == IF b < BRIGHTNESS_MIN THEN <<"low_brightness">> ELSE <<>>
      r2 == IF bl < BLUR_VAR_MIN THEN Append(r1, "blurry") ELSE r1
      r3 == IF cpu >= 0 /\ cpu > CPU_HIGH_PCT THEN Append(r2, "cpu_high") ELSE r2
      reasons ==
        IF ~cloud_ok THEN Append(r3, "net_unconfigured")
        ELSE IF net_ms < 0 THEN Append(r3, "net_down")
        ELSE IF net_ms > NET_SLOW_MS THEN Append(r3, "net_slow")
        ELSE r3
      has(t) == \E i \in 1..Len(reasons) : reasons[i] = t
  IN  IF has("low_brightness") /\ has("blurry") THEN <<"RECORD_ONLY", reasons>>
      ELSE IF has("cpu_high") \/ has("blurry") \/ has("low_brightness")
           THEN <<"RUN_CLOUD", reasons>>
      ELSE <<"RUN_LOCAL", reasons>>

\* The decisions the router can reach on a frame's averaged inputs.  The
\* health URL is not configured (the default), so net_ms is -1 and cloud_ok
\* is false in every frame.
RouterDecisions ==
  {_router(b, bl, cpu, -1, FALSE)[1] :
     b \in BrightnessVals, bl \in BlurVals, cpu \in CpuVals}

\* ------------------------------------------------------------- documents
\* result.json / a runner document: status, error (Absent when the key is
\* missing), detections (the sequence of detection values).
NoResult == [exists |-> FALSE, status |-> Absent, error |-> Absent,
             detections |-> <<>>, dict |-> TRUE]

ResultDoc(status, error, dets) ==
  [exists |-> TRUE, status |-> status, error |-> error,
   detections |-> dets, dict |-> TRUE]

\* A JSON document that is not an object (what the runner may leave behind).
NonDictDoc == [exists |-> TRUE, status |-> Absent, error |-> Absent,
               detections |-> <<>>, dict |-> FALSE]

NoIncident == [exists |-> FALSE, route_mode |-> Absent, decision |-> Absent,
               analysis_status |-> Absent, complete |-> "None",
               cloud_needed |-> FALSE, started_at |-> 0, ended_at |-> 0]

\* _make_incident
_make_incident(start_ts, end_ts, dec) ==
  [exists |-> TRUE,
   route_mode |-> IF dec = "RUN_CLOUD" THEN "CLOUD" ELSE "LOCAL",
   decision |-> dec,
   analysis_status |-> IF dec = "RECORD_ONLY" THEN "ok" ELSE "pending",
   complete |-> "None",
   cloud_needed |-> (dec = "RUN_CLOUD"),
   started_at |-> start_ts, ended_at |-> end_ts]

\* _normalize_result: the keys it keeps; "error" is not among them.
_normalize_result(ei) ==
  ResultDoc(IF ei.status = Absent THEN "ok" ELSE ei.status, Absent, ei.detections)

RECURSIVE MaxConf(_)
MaxConf(dets) ==
  IF dets = <<>> THEN 0 ELSE Max(Head(dets), MaxConf(Tail(dets)))

\* Faulty variant: a detection exactly at the threshold is not confident
\* enough.
_is_complete_Strict(result) ==
  IF result.status \in {"error", "pending_cloud"} THEN FALSE
  ELSE IF result.status = "skipped" THEN TRUE
  ELSE IF result.detections = <<>> THEN TRUE
  ELSE MaxConf(result.detections) > COMPLETE_THRESH

\* _is_complete
_is_complete(result) ==
  IF result.status \in {"error", "pending_cloud"} THEN FALSE
  ELSE IF result.status = "skipped" THEN TRUE
  ELSE IF result.detections = <<>> THEN TRUE
  ELSE MaxConf(result.detections) >= COMPLETE_THRESH

\* ----------------------------------------------------- SegmentRingBuffer
\* An entry (ts, path) of self.segs.  Segment files are seg_<ts in ms>.mp4,
\* so a path is named by the ts of its segment.
SegEntry(t, path) == [ts |-> t, path |-> path]

\* The paths held by the deque s.
Paths(s) == {s[i].path : i \in 1..Len(s)}

\* pin_many / unpin_many on the set self._pinned.
pin_many(pinned, S) == pinned \cup S

\* Faulty variant: unpin_many releases every pin.
unpin_many_ClearAll(pinned, S) == {}

unpin_many(pinned, S) == pinned \ S

\* Faulty variant: evict drops every stale head, pinned or not.
RECURSIVE evict_IgnorePins(_, _, _, _)
evict_IgnorePins(s, dsk, pinned, cutoff) ==
  IF s = <<>> \/ Head(s).ts >= cutoff THEN [segs |-> s, disk |-> dsk]
  ELSE evict_IgnorePins(Tail(s), dsk \ {Head(s).path}, pinned, cutoff)

\* evict: the while loop on the deque s with the files dsk, for
\* cutoff = now_ts - keep_seconds.  A pinned stale head is rotated to the
\* tail; the loop stops when all entries are pinned; an unpinned stale head
\* is dropped and its file removed.
RECURSIVE evict(_, _, _, _)
evict(s, dsk, pinned, cutoff) ==
  IF s = <<>> \/ Head(s).ts >= cutoff THEN [segs |-> s, disk |-> dsk]
  ELSE IF Head(s).path \in pinned
       THEN LET r == Append(Tail(s), Head(s)) IN
            IF Paths(r) \subseteq pinned THEN [segs |-> r, disk |-> dsk]
            ELSE evict(r, dsk, pinned, cutoff)
       ELSE evict(Tail(s), dsk \ {Head(s).path}, pinned, cutoff)

\* add: append, then evict(time.time()).
add(s, dsk, pinned, t, path, now, keep) ==
  evict(Append(s, SegEntry(t, path)), dsk, pinned, now - keep)

\* snapshot_last: the paths with ts >= now - seconds, in deque order.
snapshot_last(s, seconds, now) ==
  LET kept == SelectSeq(s, LAMBDA e : e.ts >= now - seconds)
  IN  [i \in 1..Len(kept) |-> kept[i].path]

\* ----------------------------------------------------------------- state
VARIABLES
  ts,              \* _now() of the latest frame
  decision,        \* the router's output in the frame that runs finalize
  motion_streak, last_motion_ts,
  evt_state,       \* idle | active | postroll
  evt_id, evt_start, evt_end, postroll_until, evt_decision,
  cap_pc,          \* capture thread: frame | concat | incident | enqueue
  seg_start,       \* start of the segment being written (NoSeg: no writer)
  evt_preroll, evt_segs, postroll_segs,
  s_event_frm,     \* frames counted while the event is active
  pkg,             \* events/final/<event_id>/ : the files of each package
  analysis_q,      \* _analysis_q
  analyzing_ids,   \* _analyzing_ids
  aw_pc,           \* analysis thread: get | infer | write_result | ...
  aw_job, aw_result, aw_complete, aw_exc,
  cloud_q,         \* _cloud_q
  cloud_jobs,      \* event ids with cloud_pending/<event_id>/cloud_job.json
  cloud_pending_count,
  \* history: what happened to each event id
  unqueued,        \* finalize met queue.Full
  raised,          \* the worker's except block ran for the job
  finished,        \* the worker called task_done for the job
  runner_calls,    \* run_local_ei_binary was called for the job
  nonzero_exit,    \* event id -> the runner's output when it exited non-zero
  cloud_dropped,   \* the worker met queue.Full on _cloud_q
  start_decision,  \* event id -> the router's decision in its start frame
  concat_failed,   \* concat_mp4 returned False at finalize
  enqueued,        \* the jobs that entered _analysis_q, in order
  subprocs,        \* the subprocess.run calls made: [thread, cmd]
  \* _router called on its own: the latest two calls
  rt_prev, rt_last,
  \* _is_complete called on its own: the argument and the value returned
  ic_doc, ic_out,
  \* SegmentRingBuffer: self.segs, self._pinned, self.keep_seconds, and the
  \* segment files on disk
  segs, _pinned, keep_seconds, disk,
  \* SegmentRingBuffer driven on its own: time.time(), the paths ever added,
  \* the call that returned last and, of pin_many followed by unpin_many,
  \* the paths argument
  rb_now, rb_added, rb_op, rb_arg,
  \* the JSON files of one package and its staging directory, written
  \* step by step: the writers' position, the name of the file each path
  \* holds, the temporary file, and what a reader saw last
  js_pc, jf, jtmp, rd_seen,
  \* FrameRingQueue: self._q, time.time(), the number of push calls so
  \* far, and the call that returned last with its argument and result
  frq_q, frq_now, frq_n, frq_op, frq_arg, frq_out,
  \* cloud_worker step by step: _cloud_q and the number of jobs put on it,
  \* the worker's position, its job and temporary file, the directories
  \* under cloud_pending/ and the files in each, the marker files of each
  \* package, _cloud_pending_count, the task_done calls, and how the
  \* try block of each job ended
  st_q, st_puts, st_pc, st_job, st_tmp, st_dirs, st_fs, st_pkg, st_count,
  st_done, st_log,
  \* concat_mp4 called on its own: the position in the call, the list and
  \* the files it was given, the manifest out_path + ".txt", the ffmpeg
  \* runs made with their outcomes, and what the call returned
  cc_pc, cc_in, cc_disk, cc_manifest, cc_runs, cc_ret,
  \* SegmentRingBuffer over an unbounded run, evict taken one loop
  \* iteration at a time: the deque with each entry's age now - ts, the
  \* pinned set, the files on disk, whether evict is running, and of the
  \* call that runs or has just returned the iterations made and the
  \* deque, files and pins it began with
  rv_segs, rv_pinned, rv_disk, rv_pc, rv_iter, rv_at_call,
  \* _analyzing_ids and the published analyzing_count, one bytecode-level
  \* step of each thread at a time: the set, _live["analyzing_count"], the
  \* queue of event ids, and of the capture thread (cap) and the analysis
  \* worker (wrk) the position, the event id in hand and the value of
  \* len(_analyzing_ids) already evaluated for _patch
  az_ids, az_count, az_q, az_next, az_cap_pc, az_cap_eid, az_cap_len,
  az_wrk_pc, az_wrk_eid, az_wrk_len,
  \* uploader_worker.py beside the node: the position in process_event_dir,
  \* the directories left in this pass, the documents load_json returned,
  \* the status resolve_status gave, done_ids, the state file, the packages
  \* with SUPABASE_DONE, and the rows of the incidents table
  up_pc, up_todo, up_inc, up_res, up_status, up_done_ids, up_state_file,
  up_sb_done, up_rows

capture_vars == <<ts, decision, motion_streak, last_motion_ts, evt_state,
                  evt_id, evt_start, evt_end, postroll_until, evt_decision,
                  cap_pc, seg_start, evt_preroll, evt_segs, postroll_segs,
                  s_event_frm>>
worker_vars == <<aw_pc, aw_job, aw_result, aw_complete, aw_exc>>
cloud_vars == <<cloud_q, cloud_jobs, cloud_pending_count>>
history_vars == <<unqueued, raised, finished, runner_calls, nonzero_exit,
                  cloud_dropped, start_decision, concat_failed>>
\* history kept for the claims about whole runs
trace_vars == <<enqueued, subprocs>>
router_vars == <<rt_prev, rt_last>>
complete_vars == <<ic_doc, ic_out>>
ring_vars == <<segs, _pinned, keep_seconds, disk>>
ring_test_vars == <<rb_now, rb_added, rb_op, rb_arg>>
json_vars == <<js_pc, jf, jtmp, rd_seen>>
frq_vars == <<frq_q, frq_now, frq_n, frq_op, frq_arg, frq_out>>
stage_vars == <<st_q, st_puts, st_pc, st_job, st_tmp, st_dirs, st_fs, st_pkg,
                st_count, st_done, st_log>>
concat_vars == <<cc_pc, cc_in, cc_disk, cc_manifest, cc_runs, cc_ret>>
evict_vars == <<rv_segs, rv_pinned, rv_disk, rv_pc, rv_iter, rv_at_call>>
az_vars == <<az_ids, az_count, az_q, az_next, az_cap_pc, az_cap_eid, az_cap_len,
             az_wrk_pc, az_wrk_eid, az_wrk_len>>
up_vars == <<up_pc, up_todo, up_inc, up_res, up_status, up_done_ids,
             up_state_file, up_sb_done, up_rows>>
last_vars == <<az_vars, up_vars>>
late_vars == <<concat_vars, evict_vars, last_vars>>
more_vars == <<json_vars, frq_vars, stage_vars, late_vars>>
unit_vars == <<router_vars, complete_vars, ring_test_vars, more_vars>>
node_vars == <<capture_vars, pkg, analysis_q, analyzing_ids, worker_vars,
               cloud_vars, history_vars, trace_vars>>
vars == <<node_vars, ring_vars, unit_vars>>

NoJob == [event_id |-> NoEvent, decision |-> Absent]

\* seg_writer is None.
NoSeg == 0

\* A package directory right after os.makedirs(pkg_dir).
NewPkg == [clip |-> FALSE, incident |-> NoIncident, result |-> NoResult,
           done |-> FALSE, needs_cloud |-> FALSE, log |-> <<>>]

\* The package after `file` was written; log keeps the order of the writes.
WriteClip(p) == [p EXCEPT !.clip = TRUE, !.log = Append(@, "clip.mp4")]
WriteIncident(p, inc) ==
  [p EXCEPT !.incident = inc, !.log = Append(@, "incident.json")]
WriteResult(p, doc) ==
  [p EXCEPT !.result = doc, !.log = Append(@, "result.json")]
WriteDone(p) == [p EXCEPT !.done = TRUE, !.log = Append(@, "DONE")]
WriteNeedsCloud(p) ==
  [p EXCEPT !.needs_cloud = TRUE, !.log = Append(@, "NEEDS_CLOUD")]

\* capture_loop's locals, the queues and the threads at start.
NodeInit ==
  /\ ts = 0 /\ decision = "RECORD_ONLY"
  /\ motion_streak = 0 /\ last_motion_ts = 0
  /\ evt_state = "idle" /\ evt_id = NoEvent
  /\ evt_start = 0 /\ evt_end = 0 /\ postroll_until = 0
  /\ evt_decision = "RECORD_ONLY"
  /\ cap_pc = "frame"
  /\ seg_start = NoSeg
  /\ evt_preroll = <<>> /\ evt_segs = <<>> /\ postroll_segs = <<>>
  /\ s_event_frm = 0
  /\ pkg = <<>>
  /\ analysis_q = <<>> /\ analyzing_ids = {}
  /\ aw_pc = "get" /\ aw_job = NoJob /\ aw_result = NoResult
  /\ aw_complete = FALSE /\ aw_exc = Absent
  /\ cloud_q = <<>> /\ cloud_jobs = {} /\ cloud_pending_count = 0
  /\ unqueued = {} /\ raised = {} /\ finished = {}
  /\ runner_calls = {} /\ nonzero_exit = <<>> /\ cloud_dropped = {}
  /\ start_decision = <<>> /\ concat_failed = {}
  /\ enqueued = <<>> /\ subprocs = {}

\* No call of _router yet.
NoCall == [called |-> FALSE, b |-> 0, bl |-> 0, cpu |-> 0, net_ms |-> 0,
           cloud_ok |-> FALSE, decision |-> Absent, reasons |-> <<>>]

RouterIdle == rt_prev = NoCall /\ rt_last = NoCall

\* _is_complete not called.
CompleteIdle == ic_doc = NoResult /\ ic_out = "None"

\* The ring buffer is not driven from outside the capture loop.
RingTestIdle ==
  rb_now = 0 /\ rb_added = {} /\ rb_op = "init" /\ rb_arg = {}

\* seg_rb = SegmentRingBuffer(SEG_DIR, keep_seconds=RING_KEEP_SEC)
RingInit ==
  /\ segs = <<>> /\ _pinned = {} /\ disk = {}
  /\ keep_seconds = RING_KEEP_SEC

\* The paths of the JSON files of a package and of its staging directory.
JsonPaths == {"incident.json", "result.json", "cloud_job.json"}

\* A reader's request: the path asked for, the document whose size was
\* announced, the content that was sent, and whether it was sent yet.
NoRead == [path |-> Absent, len_of |-> Absent, content |-> Absent,
           sent |-> TRUE]

\* No writer is at work on the files.
JsonIdle ==
  /\ js_pc = "off" /\ jf = [f \in JsonPaths |-> Absent]
  /\ jtmp = Absent /\ rd_seen = NoRead

\* The frame ring queue as constructed, with no call made on it.
FrqIdle ==
  /\ frq_q = <<>> /\ frq_now = 0 /\ frq_n = 0
  /\ frq_op = "init" /\ frq_arg = 0 /\ frq_out = <<>>

\* The event ids of the jobs handed to the cloud worker on its own.
StageEvents == {1, 2}

\* The cloud worker blocked on an empty queue, nothing staged.
StageIdle ==
  /\ st_q = <<>> /\ st_puts = 0 /\ st_pc = "get" /\ st_job = NoEvent
  /\ st_tmp = Absent /\ st_dirs = {} /\ st_fs = [e \in StageEvents |-> <<>>]
  /\ st_pkg = [e \in StageEvents |-> {}] /\ st_count = 0 /\ st_done = 0
  /\ st_log = <<>>

\* concat_mp4 not called.
ConcatIdle ==
  /\ cc_pc = "off" /\ cc_in = <<>> /\ cc_disk = {} /\ cc_manifest = Absent
  /\ cc_runs = <<>> /\ cc_ret = "None"

\* No call of evict to remember.
NoEvictCall == [segs |-> <<>>, disk |-> {}, pinned |-> {}]

\* An empty ring buffer, evict not running.
EvictIdle ==
  /\ rv_segs = <<>> /\ rv_pinned = {} /\ rv_disk = {} /\ rv_pc = "idle"
  /\ rv_iter = 0 /\ rv_at_call = NoEvictCall

\* No event analysed or queued, both threads between events.
AzIdle ==
  /\ az_ids = {} /\ az_count = 0 /\ az_q = <<>> /\ az_next = 1
  /\ az_cap_pc = "idle" /\ az_cap_eid = NoEvent /\ az_cap_len = 0
  /\ az_wrk_pc = "idle" /\ az_wrk_eid = NoEvent /\ az_wrk_len = 0

\* The uploader is not running: nothing loaded, nothing inserted.
UpIdle ==
  /\ up_pc = "sleep" /\ up_todo = <<>>
  /\ up_inc = NoIncident /\ up_res = NoResult /\ up_status = Absent
  /\ up_done_ids = {} /\ up_state_file = {} /\ up_sb_done = {}
  /\ up_rows = <<>>

LastIdle == AzIdle /\ UpIdle

LateIdle == ConcatIdle /\ EvictIdle /\ LastIdle

MoreIdle == JsonIdle /\ FrqIdle /\ StageIdle /\ LateIdle

Init ==
  /\ NodeInit /\ RingInit /\ RouterIdle /\ CompleteIdle /\ RingTestIdle
  /\ MoreIdle

\* ---------------------------------------------------------- capture loop
\* Faulty variant: every frame adds to the streak.
MotionStreak_CountsQuiet(motion, streak) == streak + 1

\* motion_streak after a frame.
MotionStreak(motion, streak) ==
  IF motion THEN streak + 1 ELSE Max(0, streak - 1)

\* Faulty variant: any streak left starts an event.
StartsEvent_AnyStreak(state, streak) == state = "idle" /\ streak >= 1

\* The idle -> active test.
StartsEvent(state, streak) ==
  state = "idle" /\ streak >= EVENT_ON_FRAMES

\* The elements of a list of paths.
Range(f) == {f[i] : i \in 1..Len(f)}

\* Faulty variant: during an event the closed segment is listed but not
\* pinned.
seg_close_commit_NoPin(r, start, state, now) ==
  IF start = NoSeg THEN r
  ELSE LET a == add(r.segs, r.disk, r.pinned, start, start, now, keep_seconds)
           on == state \in {"active", "postroll"}
       IN  [segs |-> a.segs, disk |-> a.disk, pinned |-> r.pinned,
            evt_segs |-> IF on THEN Append(r.evt_segs, start) ELSE r.evt_segs]

\* seg_close_commit on the buffer r = [segs, disk, pinned, evt_segs] with
\* the writer's segment started at start: the closed segment is added to
\* the ring and, while an event is on (state), appended to evt_segs and
\* pinned.  The writer opens and a closed segment is larger than 1 KiB.
seg_close_commit(r, start, state, now) ==
  IF start = NoSeg THEN r
  ELSE LET a == add(r.segs, r.disk, r.pinned, start, start, now, keep_seconds)
           on == state \in {"active", "postroll"}
       IN  [segs |-> a.segs, disk |-> a.disk,
            pinned |-> IF on THEN pin_many(r.pinned, {start}) ELSE r.pinned,
            evt_segs |-> IF on THEN Append(r.evt_segs, start) ELSE r.evt_segs]

\* Faulty variant: a retrigger mints a new event id.
NextEvtId_RetriggerMints(start, retrig, id, now) ==
  IF start \/ retrig THEN now ELSE id

\* evt_id after the FSM tests of a frame: minted from the frame's time when
\* the event starts (idle -> active); postroll -> active assigns evt_state
\* only.
NextEvtId(start, retrig, id, now) == IF start THEN now ELSE id

\* One iteration of the frame loop up to the end of the FSM step: the
\* segment writer, then the four FSM tests one after the other on the state
\* the previous one left; the last one begins finalize (the current segment
\* is closed, the post-roll snapshot taken and pinned).  The locals the loop
\* assigns afresh in every iteration (motion, the router's output dec) are
\* inputs of the step; dec is kept in decision only when the iteration goes
\* on into finalize, and until the next frame.  The camera delivers `last`
\* frames, and motions is what the scene can show in this frame (the first
\* frame has no previous frame to differ from).
FrameOn(last, motions) ==
  /\ cap_pc = "frame"
  /\ ts < last
  /\ \E motion \in (IF ts = 0 THEN {FALSE} ELSE motions),
        dec \in RouterDecisions :
       LET now == ts + 1
           \* 1. segment writer
           opened == IF seg_start = NoSeg THEN now ELSE seg_start
           rolls == (now - opened) >= SEGMENT_SECONDS
           r0 == [segs |-> segs, disk |-> disk \cup {opened},
                  pinned |-> _pinned, evt_segs |-> evt_segs]
           r1 == IF rolls THEN seg_close_commit(r0, opened, evt_state, now)
                 ELSE r0
           w1 == IF rolls THEN NoSeg ELSE opened
           streak == MotionStreak(motion, motion_streak)
           lm == IF motion THEN now ELSE last_motion_ts
           \* idle -> active
           start == StartsEvent(evt_state, streak)
           s1 == IF start THEN "active" ELSE evt_state
           pu1 == IF start THEN 0 ELSE postroll_until
           pre == IF start THEN snapshot_last(r1.segs, PREROLL_SECONDS, now)
                  ELSE evt_preroll
           r2 == IF start
                 THEN [r1 EXCEPT !.evt_segs = <<>>,
                                 !.pinned = pin_many(@, Range(pre))]
                 ELSE r1
           \* accumulate stats while active
           frm == IF s1 = "active"
                  THEN (IF start THEN 0 ELSE s_event_frm) + 1
                  ELSE s_event_frm
           \* postroll -> active
           retrig == s1 = "postroll" /\ streak >= EVENT_ON_FRAMES
           s2 == IF retrig THEN "active" ELSE s1
           \* active -> postroll
           quiet == s2 = "active" /\ (now - lm) >= EVENT_OFF_SECONDS
           s3 == IF quiet THEN "postroll" ELSE s2
           pu3 == IF quiet THEN now + POSTROLL_SECONDS ELSE pu1
           \* postroll -> finalize
           fin == s3 = "postroll" /\ now >= pu3
           r3 == IF fin THEN seg_close_commit(r2, w1, s3, now) ELSE r2
           post == IF fin
                   THEN snapshot_last(r3.segs, POSTROLL_SECONDS + 1, now)
                   ELSE postroll_segs
           r4 == IF fin THEN [r3 EXCEPT !.pinned = pin_many(@, Range(post))]
                 ELSE r3
       IN  /\ ts' = now
           /\ decision' = IF fin THEN dec ELSE "RECORD_ONLY"
           /\ motion_streak' = streak
           /\ last_motion_ts' = lm
           /\ evt_state' = s3
           /\ evt_id' = NextEvtId(start, retrig, evt_id, now)
           /\ evt_start' = IF start THEN now ELSE evt_start
           /\ evt_decision' = IF start THEN dec ELSE evt_decision
           /\ postroll_until' = pu3
           /\ evt_end' = IF fin THEN now ELSE evt_end
           /\ cap_pc' = IF fin THEN "concat" ELSE "frame"
           /\ seg_start' = IF fin THEN NoSeg ELSE w1
           /\ evt_preroll' = pre
           /\ postroll_segs' = post
           /\ s_event_frm' = frm
           /\ \E r \in {r4} :
                /\ evt_segs' = r.evt_segs
                /\ segs' = r.segs /\ disk' = r.disk /\ _pinned' = r.pinned
           /\ start_decision' = IF start THEN (now :> dec) @@ start_decision
                                 ELSE start_decision
  /\ UNCHANGED <<pkg, analysis_q, analyzing_ids, worker_vars, cloud_vars,
                 unqueued, raised, finished, runner_calls, nonzero_exit,
                 cloud_dropped, concat_failed>>
  /\ UNCHANGED <<keep_seconds, unit_vars, trace_vars>>

\* Any scene.
FrameUpTo(last) == FrameOn(last, BOOLEAN)

\* The camera delivers MaxTs frames.
Frame == FrameUpTo(MaxTs)

\* Faulty variant: the segments closed during the event stay pinned.
Unpin_ActiveKept(pinned, preroll, active, postroll) ==
  unpin_many(unpin_many(pinned, Range(preroll)), Range(postroll))

\* "Unpin": the three unpin_many calls at the end of finalize.
Unpin(pinned, preroll, active, postroll) ==
  unpin_many(unpin_many(unpin_many(pinned, Range(preroll)), Range(active)),
             Range(postroll))

\* The end of finalize: unpin, then reset FSM.  postroll_segs and s_event_frm
\* are not read again before the next event assigns them; they are cleared
\* here with the rest.
ResetFsm ==
  /\ _pinned' = Unpin(_pinned, evt_preroll, evt_segs, postroll_segs)
  /\ evt_state' = "idle"
  /\ evt_id' = NoEvent
  /\ evt_preroll' = <<>> /\ evt_segs' = <<>> /\ postroll_segs' = <<>>
  /\ s_event_frm' = 0
  /\ postroll_until' = 0
  /\ cap_pc' = "frame"
  /\ UNCHANGED <<ts, decision, motion_streak, last_motion_ts, evt_start,
                 evt_end, evt_decision, seg_start, segs, keep_seconds, disk>>

\* Faulty variant: finalize goes on to write the package whatever concat returned.
AfterConcat_Always(ok_concat) == "incident"

\* Where finalize goes after concat_mp4 returned ok_concat.
AfterConcat(ok_concat) == IF ok_concat THEN "incident" ELSE "frame"

\* all_segs = evt_preroll + evt_segs + postroll_segs
all_segs == evt_preroll \o evt_segs \o postroll_segs

\* Faulty variant: concat_mp4 keeps the list as it was given.
Dedupe_Keep(paths) == paths

\* concat_mp4's "De-dupe while preserving order": the first occurrence of
\* each path stays.
Dedupe(paths) ==
  LET kept == SelectSeq([i \in 1..Len(paths) |-> i],
                        LAMBDA i : \A j \in 1..(i - 1) : paths[j] # paths[i])
  IN  [k \in 1..Len(kept) |-> paths[kept[k]]]

\* concat_mp4's list after de-duplication and the filter on existing files.
Existing(paths, dsk) ==
  SelectSeq(Dedupe(paths), LAMBDA p : p \in dsk)

\* What concat_mp4 may return: False with fewer than two existing segments,
\* else whatever ffmpeg makes of them in its two attempts.
ConcatResults(paths, dsk) ==
  IF Len(Existing(paths, dsk)) < 2 THEN {FALSE} ELSE BOOLEAN

\* A subprocess.run call made by a thread.
Subproc(thread, cmd) == [thread |-> thread, cmd |-> cmd]

\* The subprocesses finalize runs on the capture thread: concat_mp4's ffmpeg
\* (when two segments exist) and, once clip.mp4 is there,
\* make_browser_ready's ffmpeg.
FinalizeSubprocs(paths, dsk, ok_concat) ==
  (IF Len(Existing(paths, dsk)) >= 2
   THEN {Subproc("capture", "ffmpeg_concat")} ELSE {})
  \cup (IF ok_concat THEN {Subproc("capture", "ffmpeg_h264")} ELSE {})

\* finalize: os.makedirs(pkg_dir), then concat_mp4 writes clip.mp4 or fails
\* (and make_browser_ready re-encodes the clip).
CapConcat ==
  /\ cap_pc = "concat"
  /\ \E ok_concat \in ConcatResults(all_segs, disk) :
       /\ subprocs' = subprocs \cup FinalizeSubprocs(all_segs, disk, ok_concat)
       /\ pkg' = (evt_id :> (IF ok_concat THEN WriteClip(NewPkg) ELSE NewPkg))
                 @@ pkg
       /\ concat_failed' = IF ok_concat THEN concat_failed
                            ELSE concat_failed \cup {evt_id}
       /\ IF AfterConcat(ok_concat) = "incident"
          THEN /\ cap_pc' = "incident"
               /\ UNCHANGED <<ts, decision, motion_streak, last_motion_ts,
                              evt_state, evt_id, evt_start, evt_end,
                              postroll_until, evt_decision, seg_start,
                              evt_preroll, evt_segs, postroll_segs,
                              s_event_frm, ring_vars>>
          ELSE ResetFsm
  /\ UNCHANGED <<analysis_q, analyzing_ids, worker_vars, cloud_vars,
                 unqueued, raised, finished, runner_calls, nonzero_exit,
                 cloud_dropped, start_decision, enqueued>>
  /\ UNCHANGED unit_vars

\* finalize: _atomic_json(out_inc, _make_incident(...)).
CapIncident ==
  /\ cap_pc = "incident"
  /\ pkg' = [pkg EXCEPT ![evt_id] =
               WriteIncident(@, _make_incident(evt_start, evt_end, evt_decision))]
  /\ cap_pc' = "enqueue"
  /\ UNCHANGED <<ts, decision, motion_streak, last_motion_ts, evt_state,
                 evt_id, evt_start, evt_end, postroll_until, evt_decision,
                 seg_start, evt_preroll, evt_segs, postroll_segs,
                 s_event_frm, analysis_q, analyzing_ids, worker_vars, cloud_vars,
                 history_vars>>
  /\ UNCHANGED <<ring_vars, unit_vars, trace_vars>>

\* Faulty variant: the job carries the router's output of the finalize frame.
JobDecision_Live == decision

\* The "decision" entry of the analysis job.
JobDecision == evt_decision

\* Faulty variant: the queue.Full branch leaves the package without DONE.
QueueFullPkg_NoDone(p) == p

\* The package after finalize met queue.Full on _analysis_q.
QueueFullPkg(p) == WriteDone(p)

\* Faulty variant: the queue.Full branch leaves the event in the analyzing
\* set.
QueueFullAnalyzing_Keep(ids, e) == ids \cup {e}

\* _analyzing_ids after _add_analyzing(e) and, on queue.Full,
\* _remove_analyzing(e).
QueueFullAnalyzing(ids, e) == (ids \cup {e}) \ {e}

\* Faulty variant: the job is put on the queue twice.
put_nowait_Twice(q, job) == Append(Append(q, job), job)

\* _analysis_q.put_nowait(job) on a queue that is not full.
put_nowait(q, job) == Append(q, job)

\* finalize: _add_analyzing, put_nowait or (queue.Full) DONE without
\* inference; then the FSM is reset.
CapEnqueue ==
  /\ cap_pc = "enqueue"
  /\ IF Len(analysis_q) < AnalysisQMax
     THEN /\ analysis_q' = put_nowait(analysis_q,
                 [event_id |-> evt_id, decision |-> JobDecision])
          /\ analyzing_ids' = analyzing_ids \cup {evt_id}
          /\ UNCHANGED <<pkg, unqueued>>
     ELSE /\ analyzing_ids' = QueueFullAnalyzing(analyzing_ids, evt_id)
          /\ pkg' = [pkg EXCEPT ![evt_id] = QueueFullPkg(@)]
          /\ unqueued' = unqueued \cup {evt_id}
          /\ UNCHANGED analysis_q
  /\ enqueued' = enqueued \o SubSeq(analysis_q', Len(analysis_q) + 1,
                                    Len(analysis_q'))
  /\ ResetFsm
  /\ UNCHANGED <<worker_vars, cloud_vars, raised, finished, runner_calls,
                 nonzero_exit, cloud_dropped, start_decision, concat_failed,
                 subprocs>>
  /\ UNCHANGED unit_vars

\* ------------------------------------------------------- local inference
\* What the runner binary does in one invocation: it is missing, exits
\* non-zero with stderr/stdout text err, leaves unreadable output, writes a
\* JSON document that is not an object, or writes a result document.
RunnerDetections == {<<>>, <<69>>, <<69, 70>>}

RunnerOutcomes ==
  [kind : {"missing", "unreadable", "non_dict"}, status : {Absent},
   err : {""}, dets : {<<>>}]
  \cup [kind : {"nonzero"}, status : {Absent}, err : {"", "boom"},
        dets : {<<>>}]
  \cup [kind : {"doc"}, status : {Absent, "ok", "error"}, err : {""},
        dets : RunnerDetections]

\* run_local_ei_binary: raised/exc when it raises, else ei is the dict it
\* returns; file is what it or the runner left in out_path (NoResult: none).
run_local_ei_binary(o) ==
  CASE o.kind = "missing" ->
         [raised |-> TRUE, exc |-> "EI runner not found", ei |-> NoResult,
          file |-> NoResult]
    [] o.kind = "nonzero" ->
         LET fail == ResultDoc("error", o.err, <<>>)
         IN  [raised |-> FALSE, exc |-> Absent, ei |-> fail, file |-> fail]
    [] o.kind = "unreadable" ->
         LET fail == ResultDoc("error", "runner produced unreadable json", <<>>)
         IN  [raised |-> FALSE, exc |-> Absent, ei |-> fail, file |-> fail]
    [] o.kind = "non_dict" ->
         [raised |-> FALSE, exc |-> Absent, ei |-> NonDictDoc,
          file |-> NonDictDoc]
    [] OTHER ->
         LET doc == ResultDoc(o.status, Absent, o.dets)
         IN  [raised |-> FALSE, exc |-> Absent, ei |-> doc, file |-> doc]

\* ------------------------------------------------------- analysis_worker
\* Faulty variant: a RECORD_ONLY job is marked incomplete.
SyntheticResult_RecordIncomplete(dec) ==
  IF dec = "RECORD_ONLY"
  THEN [result |-> ResultDoc("skipped", Absent, <<>>), complete |-> FALSE]
  ELSE [result |-> ResultDoc("pending_cloud", Absent, <<>>), complete |-> FALSE]

\* The result and completeness the worker makes up without inference.
SyntheticResult(dec) ==
  IF dec = "RECORD_ONLY"
  THEN [result |-> ResultDoc("skipped", Absent, <<>>), complete |-> TRUE]
  ELSE [result |-> ResultDoc("pending_cloud", Absent, <<>>), complete |-> FALSE]

\* Faulty variant: only RECORD_ONLY skips the runner.
SkipsInference_RecordOnly(dec) == dec = "RECORD_ONLY"

\* The decisions on which the worker does not call the runner.
SkipsInference(dec) == dec \in {"RECORD_ONLY", "RUN_CLOUD"}

\* job = _analysis_q.get()
AwGet ==
  /\ aw_pc = "get"
  /\ analysis_q # <<>>
  /\ aw_job' = Head(analysis_q)
  /\ analysis_q' = Tail(analysis_q)
  /\ aw_pc' = "infer"
  /\ UNCHANGED <<capture_vars, pkg, analyzing_ids, aw_result, aw_complete,
                 aw_exc, cloud_vars, history_vars>>
  /\ UNCHANGED <<ring_vars, unit_vars, trace_vars>>

\* "Run inference": the three branches on the job's decision.
AwInfer ==
  /\ aw_pc = "infer"
  /\ LET e == aw_job.event_id IN
     IF SkipsInference(aw_job.decision)
     THEN /\ aw_result' = SyntheticResult(aw_job.decision).result
          /\ aw_complete' = SyntheticResult(aw_job.decision).complete
          /\ aw_pc' = "write_result"
          /\ UNCHANGED <<pkg, aw_exc, raised, runner_calls, nonzero_exit,
                         subprocs>>
     ELSE \E o \in RunnerOutcomes :
            LET r == run_local_ei_binary(o) IN
            /\ runner_calls' = runner_calls \cup {e}
            /\ subprocs' = IF o.kind = "missing" THEN subprocs
                           ELSE subprocs \cup {Subproc("analysis", "ei_infer_mp4")}
            /\ nonzero_exit' = IF o.kind = "nonzero"
                               THEN (e :> o.err) @@ nonzero_exit
                               ELSE nonzero_exit
            /\ pkg' = IF r.file.exists
                      THEN [pkg EXCEPT ![e] = WriteResult(@, r.file)]
                      ELSE pkg
            /\ IF r.raised \/ ~r.ei.dict
               THEN \* run_local_ei_binary or _normalize_result raises
                    /\ aw_exc' = IF r.raised THEN r.exc
                                 ELSE "object has no attribute get"
                    /\ raised' = raised \cup {e}
                    /\ aw_pc' = "fail_result"
                    /\ UNCHANGED <<aw_result, aw_complete>>
               ELSE /\ aw_result' = _normalize_result(r.ei)
                    /\ aw_complete' = _is_complete(_normalize_result(r.ei))
                    /\ aw_pc' = "write_result"
                    /\ UNCHANGED <<aw_exc, raised>>
  /\ UNCHANGED <<capture_vars, analysis_q, analyzing_ids, aw_job, cloud_vars,
                 unqueued, finished, cloud_dropped, start_decision,
                 concat_failed, enqueued>>
  /\ UNCHANGED <<ring_vars, unit_vars>>

\* _atomic_json(result_path, result)
AwWriteResult ==
  /\ aw_pc = "write_result"
  /\ pkg' = [pkg EXCEPT ![aw_job.event_id] = WriteResult(@, aw_result)]
  /\ aw_pc' = "update_incident"
  /\ UNCHANGED <<capture_vars, analysis_q, analyzing_ids, aw_job, aw_result,
                 aw_complete, aw_exc, cloud_vars, history_vars>>
  /\ UNCHANGED <<ring_vars, unit_vars, trace_vars>>

\* "Update incident.json": analysis.status and routing.{complete,cloud_needed}.
UpdateIncident(inc, result, complete) ==
  [inc EXCEPT !.exists = TRUE,
              !.analysis_status = result.status,
              !.complete = IF complete THEN "True" ELSE "False",
              !.cloud_needed = ~complete]

AwUpdateIncident ==
  /\ aw_pc = "update_incident"
  /\ pkg' = [pkg EXCEPT ![aw_job.event_id] =
               WriteIncident(@, UpdateIncident(@.incident, aw_result, aw_complete))]
  /\ aw_pc' = "done"
  /\ UNCHANGED <<capture_vars, analysis_q, analyzing_ids, aw_job, aw_result,
                 aw_complete, aw_exc, cloud_vars, history_vars>>
  /\ UNCHANGED <<ring_vars, unit_vars, trace_vars>>

\* "Route": DONE is written first on both branches.
AwDone ==
  /\ aw_pc = "done"
  /\ pkg' = [pkg EXCEPT ![aw_job.event_id] = WriteDone(@)]
  /\ aw_pc' = IF aw_complete THEN "finally" ELSE "needs_cloud"
  /\ UNCHANGED <<capture_vars, analysis_q, analyzing_ids, aw_job, aw_result,
                 aw_complete, aw_exc, cloud_vars, history_vars>>
  /\ UNCHANGED <<ring_vars, unit_vars, trace_vars>>

\* Faulty variant: queue.Full from _cloud_q.put_nowait reaches the worker's
\* except block.
OnCloudQueueFull_Raise == "fail_result"

\* Where the worker goes when _cloud_q.put_nowait raised queue.Full: the
\* inner except prints and the job ends normally.
OnCloudQueueFull == "finally"

\* "Route", incomplete: NEEDS_CLOUD, then _cloud_q.put_nowait (dropped on
\* queue.Full).
AwNeedsCloud ==
  /\ aw_pc = "needs_cloud"
  /\ pkg' = [pkg EXCEPT ![aw_job.event_id] = WriteNeedsCloud(@)]
  /\ IF Len(cloud_q) < CloudQMax
     THEN /\ cloud_q' = Append(cloud_q, aw_job.event_id)
          /\ UNCHANGED cloud_dropped
     ELSE /\ cloud_dropped' = cloud_dropped \cup {aw_job.event_id}
          /\ UNCHANGED cloud_q
  /\ aw_pc' = IF Len(cloud_q) < CloudQMax THEN "finally" ELSE OnCloudQueueFull
  /\ UNCHANGED <<capture_vars, analysis_q, analyzing_ids, aw_job, aw_result,
                 aw_complete, aw_exc, cloud_jobs, cloud_pending_count,
                 unqueued, raised, finished, runner_calls, nonzero_exit,
                 start_decision, concat_failed>>
  /\ UNCHANGED <<ring_vars, unit_vars, trace_vars>>

\* except: _atomic_json(result_path, fail)
AwFailResult ==
  /\ aw_pc = "fail_result"
  /\ pkg' = [pkg EXCEPT ![aw_job.event_id] =
               WriteResult(@, ResultDoc("error", aw_exc, <<>>))]
  /\ aw_pc' = "fail_done"
  /\ UNCHANGED <<capture_vars, analysis_q, analyzing_ids, aw_job, aw_result,
                 aw_complete, aw_exc, cloud_vars, history_vars>>
  /\ UNCHANGED <<ring_vars, unit_vars, trace_vars>>

\* Faulty variant: the except block does not write DONE.
FailDonePkg_Skip(p) == p

\* The package after the except block's "Always write DONE".
FailDonePkg(p) == WriteDone(p)

AwFailDone ==
  /\ aw_pc = "fail_done"
  /\ pkg' = [pkg EXCEPT ![aw_job.event_id] = FailDonePkg(@)]
  /\ aw_pc' = "finally"
  /\ UNCHANGED <<capture_vars, analysis_q, analyzing_ids, aw_job, aw_result,
                 aw_complete, aw_exc, cloud_vars, history_vars>>
  /\ UNCHANGED <<ring_vars, unit_vars, trace_vars>>

\* finally: _remove_analyzing(event_id); _analysis_q.task_done()
AwFinally ==
  /\ aw_pc = "finally"
  /\ analyzing_ids' = analyzing_ids \ {aw_job.event_id}
  /\ finished' = finished \cup {aw_job.event_id}
  /\ aw_pc' = "get"
  /\ aw_job' = NoJob /\ aw_result' = NoResult
  /\ aw_complete' = FALSE /\ aw_exc' = Absent
  /\ UNCHANGED <<capture_vars, pkg, analysis_q, cloud_vars, unqueued, raised,
                 runner_calls, nonzero_exit, cloud_dropped, start_decision,
                 concat_failed>>
  /\ UNCHANGED <<ring_vars, unit_vars, trace_vars>>

AnalysisWorker ==
  \/ AwGet \/ AwInfer \/ AwWriteResult \/ AwUpdateIncident \/ AwDone
  \/ AwNeedsCloud \/ AwFailResult \/ AwFailDone \/ AwFinally

\* ---------------------------------------------------------- cloud_worker
\* One job: makedirs cloud_pending/<event_id>, write cloud_job.json, count.
CloudWorker ==
  /\ cloud_q # <<>>
  /\ cloud_jobs' = cloud_jobs \cup {Head(cloud_q)}
  /\ cloud_pending_count' = cloud_pending_count + 1
  /\ cloud_q' = Tail(cloud_q)
  /\ UNCHANGED <<capture_vars, pkg, analysis_q, analyzing_ids, worker_vars,
                 history_vars>>
  /\ UNCHANGED <<ring_vars, unit_vars, trace_vars>>

\* ------------------------------------------------- _router on its own
\* Averaged inputs on both sides of each threshold and on it; cpu and net_ms
\* are -1 when unknown.
RouterInputs ==
  [b : {10, BRIGHTNESS_MIN - 1, BRIGHTNESS_MIN},
   bl : {BLUR_VAR_MIN - 1, BLUR_VAR_MIN},
   cpu : {-1, CPU_HIGH_PCT, CPU_HIGH_PCT + 1},
   net_ms : {-1, NET_SLOW_MS, NET_SLOW_MS + 1},
   cloud_ok : BOOLEAN]

\* decision, d_reason = _router(b_avg, bl_avg, cpu_avg, net_avg, cloud_configured)
RouterCall ==
  \E in \in RouterInputs :
    LET r == _router(in.b, in.bl, in.cpu, in.net_ms, in.cloud_ok) IN
    /\ rt_prev' = rt_last
    /\ rt_last' = [called |-> TRUE, b |-> in.b, bl |-> in.bl, cpu |-> in.cpu,
                   net_ms |-> in.net_ms, cloud_ok |-> in.cloud_ok,
                   decision |-> r[1], reasons |-> r[2]]
    /\ UNCHANGED <<node_vars, ring_vars, complete_vars, ring_test_vars,
                   more_vars>>

RouterSpec == Init /\ [][RouterCall]_vars

\* -------------------------------------------- _is_complete on its own
\* Longest detections list of a result document.
MaxDets == 2

DetValues == {0, COMPLETE_THRESH - 1, COMPLETE_THRESH, 100}

DetLists == UNION {[1..n -> DetValues] : n \in 0..MaxDets}

\* Result documents; detections <<>> stands for a missing key, None and the
\* empty list alike (`result.get("detections", []) or []`).
ResultDocs ==
  {ResultDoc(st, Absent, d) :
     st \in {Absent, "ok", "error", "pending_cloud", "skipped"}, d \in DetLists}

CompleteInit ==
  /\ NodeInit /\ RingInit /\ RouterIdle /\ RingTestIdle /\ MoreIdle
  /\ ic_doc \in ResultDocs /\ ic_out = "None"

\* complete = _is_complete(result)
IsCompleteCall ==
  /\ ic_out = "None"
  /\ ic_out' = IF _is_complete(ic_doc) THEN "True" ELSE "False"
  /\ UNCHANGED <<ic_doc, node_vars, ring_vars, router_vars, ring_test_vars,
                 more_vars>>

CompleteSpec == CompleteInit /\ [][IsCompleteCall]_vars

\* ------------------------------------------ SegmentRingBuffer on its own
\* Seconds of time.time() the buffer is driven for, and its keep_seconds.
MaxNow == 4
RingKeep == 1

SegPaths == 1..MaxNow

\* SegmentRingBuffer(dir_path, keep_seconds=RingKeep)
RingTestInit ==
  /\ NodeInit /\ RouterIdle /\ CompleteIdle /\ RingTestIdle /\ MoreIdle
  /\ segs = <<>> /\ _pinned = {} /\ disk = {}
  /\ keep_seconds = RingKeep

\* time.time() moves on.
RbTick ==
  /\ rb_now < MaxNow
  /\ rb_now' = rb_now + 1
  /\ rb_op' = "tick" /\ rb_arg' = {}
  /\ UNCHANGED <<ring_vars, rb_added, node_vars, router_vars, complete_vars,
                 more_vars>>

\* add(ts, path) of a closed segment file; segments are added in the order
\* they were closed, each with a newer ts than the one before.
RbAdd ==
  /\ \E t \in 1..rb_now :
       /\ \A a \in rb_added : a < t
       /\ LET r == add(segs, disk \cup {t}, _pinned, t, t, rb_now, keep_seconds)
          IN  segs' = r.segs /\ disk' = r.disk
       /\ rb_added' = rb_added \cup {t}
  /\ rb_op' = "add" /\ rb_arg' = {}
  /\ UNCHANGED <<_pinned, keep_seconds, rb_now, node_vars, router_vars,
                 complete_vars, more_vars>>

RbPinMany ==
  /\ \E S \in SUBSET SegPaths :
       _pinned' = pin_many(_pinned, S) /\ rb_arg' = {}
  /\ rb_op' = "pin_many"
  /\ UNCHANGED <<segs, keep_seconds, disk, rb_now, rb_added, node_vars,
                 router_vars, complete_vars, more_vars>>

RbUnpinMany ==
  /\ \E S \in SUBSET SegPaths :
       _pinned' = unpin_many(_pinned, S) /\ rb_arg' = {}
  /\ rb_op' = "unpin_many"
  /\ UNCHANGED <<segs, keep_seconds, disk, rb_now, rb_added, node_vars,
                 router_vars, complete_vars, more_vars>>

\* pin_many(S) followed at once by unpin_many(S).
RbPinThenUnpin ==
  /\ \E S \in SUBSET SegPaths :
       _pinned' = unpin_many(pin_many(_pinned, S), S) /\ rb_arg' = S
  /\ rb_op' = "pin_unpin"
  /\ UNCHANGED <<segs, keep_seconds, disk, rb_now, rb_added, node_vars,
                 router_vars, complete_vars, more_vars>>

\* evict(time.time())
RbEvict ==
  /\ LET r == evict(segs, disk, _pinned, rb_now - keep_seconds)
     IN  segs' = r.segs /\ disk' = r.disk
  /\ rb_op' = "evict" /\ rb_arg' = {}
  /\ UNCHANGED <<_pinned, keep_seconds, rb_now, rb_added, node_vars,
                 router_vars, complete_vars, more_vars>>

RingNext ==
  RbTick \/ RbAdd \/ RbPinMany \/ RbUnpinMany \/ RbPinThenUnpin \/ RbEvict

RingSpec == RingTestInit /\ [][RingNext]_vars

\* ------------------------------------- the JSON files, written in steps
\* The files of one RUN_LOCAL event and the writes made to them, in the
\* order finalize, the analysis worker and the cloud worker make them.  A
\* path holds Absent (no file), Partial (a file whose content is not a whole
\* JSON document) or the name of the document it holds.
Partial == "<partial>"

\* The _atomic_json / atomic_write_json calls: where the writers stand, the
\* path written, the document, and where they stand afterwards.
AtomicWrites ==
  [incident |-> [path |-> "incident.json", doc |-> "incident at finalize",
                 next |-> "runner"],
   fail     |-> [path |-> "result.json", doc |-> "runner failure",
                 next |-> "normalized"],
   normalized |-> [path |-> "result.json", doc |-> "normalized result",
                   next |-> "update"],
   update   |-> [path |-> "incident.json", doc |-> "incident with analysis",
                 next |-> "stage"],
   stage    |-> [path |-> "cloud_job.json", doc |-> "cloud job",
                 next |-> "end"]]

JsonInit ==
  /\ NodeInit /\ RingInit /\ RouterIdle /\ CompleteIdle /\ RingTestIdle
  /\ js_pc = "incident" /\ jf = [f \in JsonPaths |-> Absent]
  /\ jtmp = Absent /\ rd_seen = NoRead
  /\ FrqIdle /\ StageIdle /\ LateIdle

\* What the actions on the JSON files leave alone.
JsonFrame ==
  UNCHANGED <<node_vars, ring_vars, router_vars, complete_vars,
              ring_test_vars, frq_vars, stage_vars, late_vars>>

\* _atomic_json: tempfile.mkstemp in the directory of the target.
JsMkstemp ==
  /\ js_pc \in DOMAIN AtomicWrites /\ jtmp = Absent
  /\ jtmp' = Partial
  /\ UNCHANGED <<js_pc, jf, rd_seen>>
  /\ JsonFrame

\* _atomic_json: json.dump into the temporary file.
JsDump ==
  /\ js_pc \in DOMAIN AtomicWrites /\ jtmp = Partial
  /\ jtmp' = AtomicWrites[js_pc].doc
  /\ UNCHANGED <<js_pc, jf, rd_seen>>
  /\ JsonFrame

\* _atomic_json: os.replace(tmp, path).
JsReplace ==
  /\ js_pc \in DOMAIN AtomicWrites /\ jtmp \notin {Absent, Partial}
  /\ jf' = [jf EXCEPT ![AtomicWrites[js_pc].path] = jtmp]
  /\ jtmp' = Absent
  /\ js_pc' = AtomicWrites[js_pc].next
  /\ UNCHANGED rd_seen
  /\ JsonFrame

\* run_local_ei_binary starts the runner with --out result.json of the
\* package; the runner, another process, creates the file and writes it.
JsRunnerWrites ==
  /\ js_pc = "runner"
  /\ jf' = [jf EXCEPT !["result.json"] = Partial]
  /\ js_pc' = "runner_exit"
  /\ UNCHANGED <<jtmp, rd_seen>>
  /\ JsonFrame

\* The runner exits: with its document written, with output that does not
\* parse, or non-zero (also before it wrote anything); run_local_ei_binary
\* rewrites the file on the last two.
JsRunnerExit ==
  /\ js_pc \in {"runner", "runner_exit"}
  /\ \E out \in (IF js_pc = "runner" THEN {"nonzero"}
                 ELSE {"doc", "unreadable", "nonzero"}) :
       /\ jf' = IF out = "doc"
                THEN [jf EXCEPT !["result.json"] = "runner document"]
                ELSE jf
       /\ js_pc' = IF out = "doc" THEN "normalized" ELSE "fail"
  /\ UNCHANGED <<jtmp, rd_seen>>
  /\ JsonFrame

\* GET /events/<id>.json and GET /events/<id>.result.json: _find_pkg wants
\* incident.json, the second handler wants result.json too; the uploader
\* reads cloud_job.json.  _send_file begins with os.path.getsize(path) and
\* sends it as Content-Length.
JsStat ==
  /\ rd_seen.sent
  /\ \E f \in JsonPaths :
       /\ f \in {"incident.json", "result.json"} => jf["incident.json"] # Absent
       /\ jf[f] # Absent
       /\ rd_seen' = [path |-> f, len_of |-> jf[f], content |-> Absent,
                      sent |-> FALSE]
  /\ UNCHANGED <<js_pc, jf, jtmp>>
  /\ JsonFrame

\* _send_file: open(path) and send what the file holds now.
JsSend ==
  /\ ~rd_seen.sent
  /\ rd_seen' = [rd_seen EXCEPT !.content = jf[rd_seen.path], !.sent = TRUE]
  /\ UNCHANGED <<js_pc, jf, jtmp>>
  /\ JsonFrame

JsonNext ==
  \/ JsMkstemp \/ JsDump \/ JsReplace \/ JsRunnerWrites \/ JsRunnerExit
  \/ JsStat \/ JsSend

JsonSpec == JsonInit /\ [][JsonNext]_vars

\* ------------------------------------------------------- FrameRingQueue
\* frame_ring_seconds of config.json in tenths of a second (350 when the
\* key is missing) and target_fps, set low enough for the queue to fill
\* within FrqMaxPush calls.
FRAME_RING_TENTHS == 15
TARGET_FPS == 1

\* The latest time.time(), the number of push calls made, and the windows
\* asked of snapshot_last.
FrqMaxNow == 1
FrqMaxPush == 35
FrqWindows == 0..FrqMaxNow

\* int(max_seconds * fps): the product truncated, max_seconds in tenths.
IntProduct(tenths, fps) == (tenths * fps) \div 10

\* FrameRingQueue.__init__: cap = int(max_seconds * fps) + 32.
frq_cap == IntProduct(FRAME_RING_TENTHS, TARGET_FPS) + 32

\* deque.append without a maxlen.
frq_push_NoMaxlen(q, t, jpeg) == Append(q, [ts |-> t, jpeg |-> jpeg])

\* FrameRingQueue.push: deque(maxlen=cap).append drops from the left end
\* when the deque is full.
frq_push(q, t, jpeg) ==
  LET e == [ts |-> t, jpeg |-> jpeg]
  IN  IF Len(q) >= frq_cap THEN Append(Tail(q), e) ELSE Append(q, e)

\* FrameRingQueue.snapshot_last: the entries with t >= time.time() - seconds.
frq_snapshot_last(q, seconds, now) ==
  SelectSeq(q, LAMBDA e : e.ts >= now - seconds)

FrqInit ==
  /\ NodeInit /\ RingInit /\ RouterIdle /\ CompleteIdle /\ RingTestIdle
  /\ JsonIdle /\ FrqIdle /\ StageIdle /\ LateIdle

FrqFrame ==
  UNCHANGED <<node_vars, ring_vars, router_vars, complete_vars,
              ring_test_vars, json_vars, stage_vars, late_vars>>

\* time.time() moves on.
FrqTick ==
  /\ frq_now < FrqMaxNow
  /\ frq_now' = frq_now + 1
  /\ UNCHANGED <<frq_q, frq_n, frq_op, frq_arg, frq_out>>
  /\ FrqFrame

\* capture_loop: frq.push(ts, jpg_bytes); the bytes of the n-th frame are
\* told apart by n.
FrqPush ==
  /\ frq_n < FrqMaxPush
  /\ frq_q' = frq_push(frq_q, frq_now, frq_n + 1)
  /\ frq_n' = frq_n + 1
  /\ frq_op' = "push" /\ frq_arg' = frq_now /\ frq_out' = <<>>
  /\ UNCHANGED frq_now
  /\ FrqFrame

\* A worker's frq.snapshot_last(seconds).
FrqSnapshot ==
  \E seconds \in FrqWindows :
    /\ frq_out' = frq_snapshot_last(frq_q, seconds, frq_now)
    /\ frq_op' = "snapshot_last" /\ frq_arg' = seconds
    /\ UNCHANGED <<frq_q, frq_now, frq_n>>
    /\ FrqFrame

FrqNext == FrqTick \/ FrqPush \/ FrqSnapshot

FrqSpec == FrqInit /\ [][FrqNext]_vars

\* --------------------------------------------------------- cloud_worker
\* The jobs put on _cloud_q over a run.
StageMaxJobs == 3

\* The names tempfile.mkstemp(prefix=".tmp_", suffix=".json") may pick.
TmpNames == {".tmp_a.json", ".tmp_b.json", ".tmp_c.json"}

\* The document cloud_worker writes; queued_at is the number of the job.
CloudJobDoc(event_id, queued_at) ==
  [event_id |-> event_id, pkg_dir |-> event_id, queued_at |-> queued_at,
   reason |-> "local_incomplete"]

\* A file whose json.dump did not finish.
NoDoc == CloudJobDoc(NoEvent, 0)

\* A directory, a function from the names in it to the files, after a
\* write of doc to name and after the removal of name.
WriteFile(dir, name, doc) ==
  [n \in DOMAIN dir \cup {name} |-> IF n = name THEN doc ELSE dir[n]]
RemoveFile(dir, name) == [n \in DOMAIN dir \ {name} |-> dir[n]]

\* A rename that leaves an existing target alone.
os_replace_KeepsTarget(dir, tmp, name) ==
  IF name \in DOMAIN dir THEN dir ELSE WriteFile(RemoveFile(dir, tmp), name, dir[tmp])

\* os.replace(tmp, path): the target becomes the temporary file, whether
\* it existed or not.
os_replace(dir, tmp, name) == WriteFile(RemoveFile(dir, tmp), name, dir[tmp])

\* _atomic_json's finally: os.remove(tmp) when the file is still there;
\* a failing os.remove is swallowed and leaves it.
Cleanup(dir, tmp) ==
  IF tmp \in DOMAIN dir THEN {RemoveFile(dir, tmp), dir} ELSE {dir}

StageInit ==
  /\ NodeInit /\ RingInit /\ RouterIdle /\ CompleteIdle /\ RingTestIdle
  /\ JsonIdle /\ FrqIdle /\ StageIdle /\ LateIdle

StageFrame ==
  UNCHANGED <<node_vars, ring_vars, router_vars, complete_vars,
              ring_test_vars, json_vars, frq_vars, late_vars>>

\* analysis_worker, incomplete result: DONE and NEEDS_CLOUD are written
\* and the job is put on _cloud_q.
StPut ==
  \E e \in StageEvents :
    /\ st_puts < StageMaxJobs
    /\ st_pkg' = [st_pkg EXCEPT ![e] = {"DONE", "NEEDS_CLOUD"}]
    /\ st_q' = Append(st_q, e)
    /\ st_puts' = st_puts + 1
    /\ UNCHANGED <<st_pc, st_job, st_tmp, st_dirs, st_fs, st_count, st_done,
                   st_log>>
    /\ StageFrame

\* job = _cloud_q.get(timeout=5.0)
StGet ==
  /\ st_pc = "get" /\ st_q # <<>>
  /\ st_job' = Head(st_q) /\ st_q' = Tail(st_q)
  /\ st_pc' = "makedirs"
  /\ UNCHANGED <<st_puts, st_tmp, st_dirs, st_fs, st_pkg, st_count, st_done,
                 st_log>>
  /\ StageFrame

\* A step of the try block raised: the except block prints, and the
\* staging of the job has failed.
StRaise(dir) ==
  /\ st_fs' = [st_fs EXCEPT ![st_job] = dir]
  /\ st_tmp' = Absent
  /\ st_log' = Append(st_log, [event_id |-> st_job, ok |-> FALSE])
  /\ st_pc' = "task_done"

\* os.makedirs(cloud_dir, exist_ok=True)
StMakedirs ==
  /\ st_pc = "makedirs"
  /\ \/ /\ st_dirs' = st_dirs \cup {st_job}
        /\ st_pc' = "mkstemp"
        /\ UNCHANGED <<st_fs, st_tmp, st_log>>
     \/ /\ StRaise(st_fs[st_job])
        /\ UNCHANGED st_dirs
  /\ UNCHANGED <<st_q, st_puts, st_job, st_pkg, st_count, st_done>>
  /\ StageFrame

\* _atomic_json: tempfile.mkstemp makes an empty file under a name that
\* is not in the directory.
StMkstemp ==
  /\ st_pc = "mkstemp"
  /\ \/ \E tmp \in TmpNames \ DOMAIN st_fs[st_job] :
          /\ st_fs' = [st_fs EXCEPT ![st_job] = WriteFile(@, tmp, NoDoc)]
          /\ st_tmp' = tmp
          /\ st_pc' = "dump"
          /\ UNCHANGED st_log
     \/ StRaise(st_fs[st_job])
  /\ UNCHANGED <<st_q, st_puts, st_job, st_dirs, st_pkg, st_count, st_done>>
  /\ StageFrame

\* _atomic_json: json.dump into the temporary file.
StDump ==
  /\ st_pc = "dump"
  /\ \/ /\ st_fs' = [st_fs EXCEPT ![st_job] =
                        WriteFile(@, st_tmp,
                                  CloudJobDoc(st_job, Len(st_log) + 1))]
        /\ st_pc' = "replace"
        /\ UNCHANGED <<st_tmp, st_log>>
     \/ \E dir \in Cleanup(st_fs[st_job], st_tmp) : StRaise(dir)
  /\ UNCHANGED <<st_q, st_puts, st_job, st_dirs, st_pkg, st_count, st_done>>
  /\ StageFrame

\* _atomic_json: os.replace(tmp, path), then the finally block.
StReplace ==
  /\ st_pc = "replace"
  /\ \/ /\ \E dir \in Cleanup(os_replace(st_fs[st_job], st_tmp,
                                           "cloud_job.json"), st_tmp) :
             st_fs' = [st_fs EXCEPT ![st_job] = dir]
        /\ st_tmp' = Absent
        /\ st_log' = Append(st_log, [event_id |-> st_job, ok |-> TRUE])
        /\ st_pc' = "count"
     \/ \E dir \in Cleanup(st_fs[st_job], st_tmp) : StRaise(dir)
  /\ UNCHANGED <<st_q, st_puts, st_job, st_dirs, st_pkg, st_count, st_done>>
  /\ StageFrame

\* _cloud_pending_count += 1 under the lock, _patch, print.
StCount ==
  /\ st_pc = "count"
  /\ st_count' = st_count + 1
  /\ st_pc' = "task_done"
  /\ UNCHANGED <<st_q, st_puts, st_job, st_tmp, st_dirs, st_fs, st_pkg,
                 st_done, st_log>>
  /\ StageFrame

\* finally: _cloud_q.task_done(), and the loop goes round.
StTaskDone ==
  /\ st_pc = "task_done"
  /\ st_done' = st_done + 1
  /\ st_job' = NoEvent
  /\ st_pc' = "get"
  /\ UNCHANGED <<st_q, st_puts, st_tmp, st_dirs, st_fs, st_pkg, st_count,
                 st_log>>
  /\ StageFrame

StageNext ==
  \/ StPut \/ StGet \/ StMakedirs \/ StMkstemp \/ StDump \/ StReplace
  \/ StCount \/ StTaskDone

StageSpec == StageInit /\ [][StageNext]_vars

\* ----------------------------------------------------------- concat_mp4
\* The list given to concat_mp4: up to MaxList paths out of 0..MaxPath,
\* where 0 stands for the empty string.
MaxList == 4
MaxPath == 2
ConcatLists == UNION {[1..n -> 0..MaxPath] : n \in 0..MaxList}

\* How a subprocess.run of ffmpeg ends: return code 0, another return
\* code, or an exception of subprocess.run itself (no ffmpeg to run).
FfmpegOutcomes == {"zero", "nonzero", "raised"}

\* What stays untouched by a call of concat_mp4 on its own.
ConcatFrame ==
  UNCHANGED <<node_vars, ring_vars, router_vars, complete_vars,
              ring_test_vars, json_vars, frq_vars, stage_vars, evict_vars,
              last_vars>>

ConcatInit ==
  /\ NodeInit /\ RingInit /\ RouterIdle /\ CompleteIdle /\ RingTestIdle
  /\ JsonIdle /\ FrqIdle /\ StageIdle /\ EvictIdle /\ LastIdle
  /\ cc_pc = "call" /\ cc_in \in ConcatLists
  /\ cc_disk \in SUBSET (1..MaxPath) /\ cc_manifest = Absent
  /\ cc_runs = <<>> /\ cc_ret = "None"

\* Faulty variant: the re-encode runs whatever the stream copy returned.
AfterCopy_AlwaysReencode(rc) ==
  IF rc = "raised" THEN "finally" ELSE "reencode"

\* Where concat_mp4 goes after the stream-copy run: to the finally block
\* with True to return, to the re-encode, or to the finally block with the
\* exception.
AfterCopy(rc) == IF rc = "nonzero" THEN "reencode" ELSE "finally"

\* What a run that ended with rc makes concat_mp4 return.
RunReturns(rc) ==
  IF rc = "zero" THEN "True" ELSE IF rc = "nonzero" THEN "False" ELSE "raised"

\* The empty list, de-duplication, the filter on existing files and the
\* test on their number; then the manifest is written.
CcFilter ==
  /\ cc_pc = "call"
  /\ IF Len(Existing(cc_in, cc_disk)) < 2
     THEN /\ cc_ret' = "False" /\ cc_pc' = "done"
          /\ UNCHANGED cc_manifest
     ELSE /\ cc_manifest' = Existing(cc_in, cc_disk)
          /\ cc_pc' = "copy"
          /\ UNCHANGED cc_ret
  /\ UNCHANGED <<cc_in, cc_disk, cc_runs>>
  /\ ConcatFrame

\* subprocess.run(cmd_copy)
CcCopy ==
  /\ cc_pc = "copy"
  /\ \E rc \in FfmpegOutcomes :
       /\ cc_runs' = Append(cc_runs, [cmd |-> "copy", rc |-> rc,
                                      list |-> cc_manifest])
       /\ cc_pc' = AfterCopy(rc)
       /\ cc_ret' = IF AfterCopy(rc) = "finally" THEN RunReturns(rc)
                    ELSE cc_ret
  /\ UNCHANGED <<cc_in, cc_disk, cc_manifest>>
  /\ ConcatFrame

\* subprocess.run(cmd_reencode)
CcReencode ==
  /\ cc_pc = "reencode"
  /\ \E rc \in FfmpegOutcomes :
       /\ cc_runs' = Append(cc_runs, [cmd |-> "reencode", rc |-> rc,
                                      list |-> cc_manifest])
       /\ cc_ret' = RunReturns(rc)
  /\ cc_pc' = "finally"
  /\ UNCHANGED <<cc_in, cc_disk, cc_manifest>>
  /\ ConcatFrame

\* finally: os.remove(list_path), then the return or the exception.
CcFinally ==
  /\ cc_pc = "finally"
  /\ cc_manifest' = Absent
  /\ cc_pc' = "done"
  /\ UNCHANGED <<cc_in, cc_disk, cc_runs, cc_ret>>
  /\ ConcatFrame

ConcatNext == CcFilter \/ CcCopy \/ CcReencode \/ CcFinally

ConcatSpec == ConcatInit /\ [][ConcatNext]_vars

\* ------------------------------------- SegmentRingBuffer, unbounded runs
\* The segment file names in use at a time (a name is free again once its
\* entry and its file are gone), and the keep_seconds of the buffer.  An
\* entry holds age = time.time() - ts in place of ts, counted up to
\* RvKeep + 1: evict only tests ts < now - keep_seconds, age > keep_seconds.
RvNames == 3
RvKeep == 1
RvPaths == 1..RvNames

RvEntry(path) == [age |-> 0, path |-> path]
RvStale(e) == e.age > RvKeep
RvAllPinned(s, pinned) == \A i \in 1..Len(s) : s[i].path \in pinned

EvictFrame ==
  UNCHANGED <<node_vars, ring_vars, router_vars, complete_vars,
              ring_test_vars, json_vars, frq_vars, stage_vars, concat_vars,
              last_vars>>

EvictInit ==
  /\ NodeInit /\ RingInit /\ RouterIdle /\ CompleteIdle /\ RingTestIdle
  /\ JsonIdle /\ FrqIdle /\ StageIdle /\ ConcatIdle /\ EvictIdle /\ LastIdle

\* time.time() moves on by a second.
RvTick ==
  /\ rv_pc = "idle"
  /\ rv_segs' = [i \in 1..Len(rv_segs) |->
                  [rv_segs[i] EXCEPT !.age = IF @ > RvKeep THEN @ ELSE @ + 1]]
  /\ rv_iter' = 0 /\ rv_at_call' = NoEvictCall
  /\ UNCHANGED <<rv_pinned, rv_disk, rv_pc>>
  /\ EvictFrame

\* add(ts, path) of a segment file closed just now: append, then
\* self.evict(time.time()) begins.
RvAdd ==
  /\ rv_pc = "idle"
  /\ \E p \in RvPaths \ (rv_disk \cup Paths(rv_segs)) :
       /\ rv_segs' = Append(rv_segs, RvEntry(p))
       /\ rv_disk' = rv_disk \cup {p}
       /\ rv_at_call' = [segs |-> rv_segs', disk |-> rv_disk',
                         pinned |-> rv_pinned]
  /\ rv_pc' = "evict" /\ rv_iter' = 0
  /\ UNCHANGED rv_pinned
  /\ EvictFrame

\* evict(now_ts) called on its own.
RvEvict ==
  /\ rv_pc = "idle"
  /\ rv_at_call' = [segs |-> rv_segs, disk |-> rv_disk, pinned |-> rv_pinned]
  /\ rv_pc' = "evict" /\ rv_iter' = 0
  /\ UNCHANGED <<rv_segs, rv_pinned, rv_disk>>
  /\ EvictFrame

\* pin_many([p]) of a segment of the buffer and unpin_many([p]), by the
\* thread that also calls add.
RvPin ==
  /\ rv_pc = "idle"
  /\ \E p \in Paths(rv_segs) : rv_pinned' = pin_many(rv_pinned, {p})
  /\ rv_iter' = 0 /\ rv_at_call' = NoEvictCall
  /\ UNCHANGED <<rv_segs, rv_disk, rv_pc>>
  /\ EvictFrame

RvUnpin ==
  /\ rv_pc = "idle"
  /\ \E p \in rv_pinned : rv_pinned' = unpin_many(rv_pinned, {p})
  /\ rv_iter' = 0 /\ rv_at_call' = NoEvictCall
  /\ UNCHANGED <<rv_segs, rv_disk, rv_pc>>
  /\ EvictFrame

\* Faulty variant: a pinned head is rotated and the loop goes on without
\* the test that everything is pinned.
AfterRotate_NoBreak(s, pinned) == "evict"

\* evict after self.segs.rotate(-1): break when everything is pinned,
\* else continue.
AfterRotate(s, pinned) == IF RvAllPinned(s, pinned) THEN "idle" ELSE "evict"

\* What os.remove(p) may leave of the files dsk: the file gone, or, when
\* it raised (the exception is swallowed), the file still there.
OsRemove(dsk, p) == {dsk \ {p}, dsk}

\* The iterations counted, up to the number that ends the count.
RvCount(n) == IF n > 2 * RvNames THEN n ELSE n + 1

\* One test of the while condition of evict and, when it holds, one
\* iteration of the loop.
RvLoop ==
  /\ rv_pc = "evict"
  /\ IF rv_segs = <<>> \/ ~RvStale(Head(rv_segs))
     THEN /\ rv_pc' = "idle"
          /\ UNCHANGED <<rv_segs, rv_disk, rv_iter>>
     ELSE /\ rv_iter' = RvCount(rv_iter)
          /\ IF Head(rv_segs).path \in rv_pinned
             THEN /\ rv_segs' = Append(Tail(rv_segs), Head(rv_segs))
                  /\ rv_pc' = AfterRotate(rv_segs', rv_pinned)
                  /\ UNCHANGED rv_disk
             ELSE /\ rv_segs' = Tail(rv_segs)
                  /\ rv_disk' \in OsRemove(rv_disk, Head(rv_segs).path)
                  /\ rv_pc' = "evict"
  /\ UNCHANGED <<rv_pinned, rv_at_call>>
  /\ EvictFrame

EvictNext == RvTick \/ RvAdd \/ RvEvict \/ RvPin \/ RvUnpin \/ RvLoop

EvictSpec == EvictInit /\ [][EvictNext]_vars

\* The clock runs and a running evict takes its next step.
EvictFairSpec ==
  /\ EvictSpec
  /\ WF_vars(RvTick) /\ WF_vars(RvLoop)

\* --------------------------------------------------------- specification
Capture == Frame \/ CapConcat \/ CapIncident \/ CapEnqueue

Next == Capture \/ AnalysisWorker \/ CloudWorker

Spec == Init /\ [][Next]_vars

\* Frames of the runs in which the threads are followed to the end: enough
\* for one event to be finalized and analysed whichever way it goes.
MaxTsFair == 10

FairFrame == FrameUpTo(MaxTsFair)

FairNext ==
  \/ FairFrame \/ CapConcat \/ CapIncident \/ CapEnqueue
  \/ AnalysisWorker \/ CloudWorker

\* The threads keep running: the capture thread goes through finalize, the
\* analysis and cloud threads take their next step (every runner call
\* returns).
FairSpec ==
  /\ Init /\ [][FairNext]_vars
  /\ WF_vars(CapConcat \/ CapIncident \/ CapEnqueue)
  /\ WF_vars(AnalysisWorker)
  /\ WF_vars(CloudWorker)

\* Frames of the long runs of the capture thread, longer than keep_seconds so
\* that segments age out of the ring while an event is on and while nothing
\* moves.
MaxTsLong == 120

\* The scene of a long run: nothing moves, or something moves from the
\* second frame on, stops at some frame and never moves again.
LongMotions == IF ts = 1 \/ last_motion_ts = ts THEN BOOLEAN ELSE {FALSE}

LongFrame == FrameOn(MaxTsLong, LongMotions)

LongNext == LongFrame \/ CapConcat \/ CapIncident \/ CapEnqueue

LongSpec == Init /\ [][LongNext]_vars

\* ================================================================ claims
Packages == DOMAIN pkg

Count(log, file) == Cardinality({i \in 1..Len(log) : log[i] = file})

InQueue(q, e) == \E i \in 1..Len(q) : q[i] = e

JobQueued(e) == \E i \in 1..Len(analysis_q) : analysis_q[i].event_id = e

\* C1: DONE is the last file written into a package: whenever DONE exists,
\* the latest write into the package is the write of DONE (so NEEDS_CLOUD,
\* result.json and incident.json are never written once DONE exists).
C1_DoneIsLastWrite ==
  \A e \in Packages :
    pkg[e].done => pkg[e].log[Len(pkg[e].log)] = "DONE"

\* C2: in every reachable state, a package with DONE has clip.mp4 and
\* incident.json.
C2_DoneImpliesClipAndIncident ==
  \A e \in Packages :
    pkg[e].done => pkg[e].clip /\ pkg[e].incident.exists

\* C2 witness: one package got DONE on the queue-full path of finalize and
\* another in the worker's exception handler.
C2_Witness ==
  /\ \E e \in unqueued : pkg[e].done /\ pkg[e].clip /\ pkg[e].incident.exists
  /\ \E e \in raised : pkg[e].done /\ pkg[e].clip /\ pkg[e].incident.exists

Packaged(e) == e \in Packages /\ pkg[e].clip /\ pkg[e].incident.exists

\* C3: under FairSpec, every package for which finalize wrote clip.mp4 and
\* incident.json eventually has DONE: such a package stays one (no step
\* removes its files), again and again every such package has DONE, and no
\* event is settled (job finished, or queue.Full at finalize) without DONE.
C3_EventuallyDone ==
  /\ [][\A e \in Ids : Packaged(e) => Packaged(e)']_vars
  /\ []<>(\A e \in Ids : Packaged(e) => pkg[e].done)
  /\ [](\A e \in finished \cup unqueued : pkg[e].done)

\* C3 witness: a job whose inference raised has been finished with DONE.
C3_Witness ==
  \E e \in raised \cap finished : pkg[e].done /\ pkg[e].result.status = "error"

\* C4: DONE is written at most once into a package, and exactly once as soon
\* as the event is settled (the worker finished its job, or finalize met
\* queue.Full).
C4_DoneWrittenOnce ==
  \A e \in Packages :
    /\ Count(pkg[e].log, "DONE") <= 1
    /\ e \in finished \cup unqueued => Count(pkg[e].log, "DONE") = 1

\* C4 witness: one package got its single DONE from finalize's queue-full
\* branch and another from the worker's route step.
C4_Witness ==
  /\ \E e \in unqueued : Count(pkg[e].log, "DONE") = 1
  /\ \E e \in finished \ raised : Count(pkg[e].log, "DONE") = 1

\* C5: once the worker has finished a job, NEEDS_CLOUD exists iff the
\* outcome in result.json is incomplete.
C5_NeedsCloudIffIncomplete ==
  \A e \in finished :
    pkg[e].needs_cloud <=> ~_is_complete(pkg[e].result)

\* C6: when the runner of a RUN_LOCAL job exits non-zero (here: with an
\* error text on stderr), the finished package has result.status = error, a
\* non-empty result.error, NEEDS_CLOUD, DONE and routing.complete = false.
C6_RunnerNonZeroExit ==
  \A e \in finished \cap DOMAIN nonzero_exit :
    nonzero_exit[e] # "" =>
      /\ pkg[e].result.status = "error"
      /\ pkg[e].result.error \notin {Absent, ""}
      /\ pkg[e].needs_cloud /\ pkg[e].done
      /\ pkg[e].incident.complete = "False"

\* C7: when the worker raises while processing a job, the finished package
\* has result.status = error, routing.complete = false, routing.cloud_needed
\* = true, NEEDS_CLOUD and DONE.
C7_ExceptionPostProcessing ==
  \A e \in finished \cap raised :
    /\ pkg[e].result.status = "error"
    /\ pkg[e].incident.complete = "False"
    /\ pkg[e].incident.cloud_needed
    /\ pkg[e].needs_cloud /\ pkg[e].done

CloudStaged(e) ==
  /\ e \in Packages
  /\ pkg[e].incident.route_mode = "CLOUD"
  /\ pkg[e].result.status = "pending_cloud"
  /\ pkg[e].needs_cloud /\ pkg[e].done
  /\ e \in cloud_jobs

\* The analysis queue accepted the job of e: it is queued, in the worker's
\* hands, or finished.
JobAccepted(e) == JobQueued(e) \/ aw_job.event_id = e \/ e \in finished

RunCloud(e) == e \in DOMAIN start_decision /\ start_decision[e] = "RUN_CLOUD"

\* C8: under FairSpec, every event started with RUN_CLOUD whose job the
\* analysis queue accepted and whose staging job the cloud queue did not
\* refuse eventually has route_mode = CLOUD, result.status = pending_cloud,
\* NEEDS_CLOUD, DONE and a cloud_job.json (an accepted job stays accepted,
\* and again and again every such event is staged); the runner is never
\* invoked for a RUN_CLOUD event.
C8_RunCloudStaged ==
  /\ [][\A e \in Ids : JobAccepted(e) => JobAccepted(e)']_vars
  /\ []<>(\A e \in Ids :
            RunCloud(e) /\ JobAccepted(e) /\ e \notin cloud_dropped
              => CloudStaged(e))
  /\ [](\A e \in Ids : RunCloud(e) => e \notin runner_calls)

\* C8 witness: a RUN_CLOUD event is staged.
C8_Witness ==
  \E e \in finished :
    start_decision[e] = "RUN_CLOUD" /\ CloudStaged(e)

C10_DecisionFixedAtStart ==
  /\ evt_id # NoEvent => evt_decision = start_decision[evt_id]
  /\ \A e \in Packages :
       pkg[e].incident.exists => pkg[e].incident.decision = start_decision[e]
  /\ \A i \in 1..Len(analysis_q) :
       analysis_q[i].decision = start_decision[analysis_q[i].event_id]
  /\ aw_job # NoJob => aw_job.decision = start_decision[aw_job.event_id]

\* C10 witness: a job is queued with the start frame's decision while the
\* router's latest output is another one.
C10_Witness ==
  \E i \in 1..Len(analysis_q) :
    /\ analysis_q[i].decision = start_decision[analysis_q[i].event_id]
    /\ analysis_q[i].decision # decision
    /\ pkg[analysis_q[i].event_id].incident.decision = analysis_q[i].decision

\* The tags of a reasons list.
Tags(reasons) == {reasons[i] : i \in 1..Len(reasons)}

NetTags == {"net_unconfigured", "net_down", "net_slow"}

RouterCalls == {c \in {rt_prev, rt_last} : c.called}

\* C11: on every call the router returns RECORD_ONLY exactly when brightness
\* and blur are both below their minimum (whatever the cpu average),
\* otherwise RUN_CLOUD exactly when cpu is above the high mark or blur or
\* brightness is below its minimum, otherwise RUN_LOCAL; an unknown
\* (negative) cpu average is never tagged cpu_high.
C11_RouterTable ==
  \A c \in RouterCalls :
    LET dark == c.b < BRIGHTNESS_MIN
        blurry == c.bl < BLUR_VAR_MIN
        busy == c.cpu > CPU_HIGH_PCT
    IN  /\ c.decision = "RECORD_ONLY" <=> dark /\ blurry
        /\ c.decision = "RUN_CLOUD" <=>
              ~(dark /\ blurry) /\ (busy \/ blurry \/ dark)
        /\ c.decision = "RUN_LOCAL" <=> ~(busy \/ blurry \/ dark)
        /\ c.cpu < 0 => "cpu_high" \notin Tags(c.reasons)
        /\ "low_brightness" \in Tags(c.reasons) <=> dark
        /\ "blurry" \in Tags(c.reasons) <=> blurry

\* C11 witness: a dark and blurry picture on a busy cpu was RECORD_ONLY and
\* a sharp bright one with an unknown cpu average was RUN_LOCAL.
C11_Witness ==
  /\ rt_prev.called /\ rt_prev.decision = "RECORD_ONLY"
  /\ rt_prev.cpu > CPU_HIGH_PCT
  /\ rt_last.called /\ rt_last.decision = "RUN_LOCAL" /\ rt_last.cpu < 0

\* C12: two calls that agree on brightness, blur and cpu return the same
\* decision and the same tags apart from net_unconfigured, net_down and
\* net_slow, whatever net_ms and cloud_ok are in each.
C12_NetworkAdvisoryOnly ==
  (/\ rt_prev.called /\ rt_last.called
   /\ rt_prev.b = rt_last.b /\ rt_prev.bl = rt_last.bl
   /\ rt_prev.cpu = rt_last.cpu)
    => /\ rt_prev.decision = rt_last.decision
       /\ Tags(rt_prev.reasons) \ NetTags = Tags(rt_last.reasons) \ NetTags

\* C12 witness: two calls on the same picture and cpu, one with the cloud
\* down and one with a fast configured cloud, both RUN_CLOUD, with different
\* tags.
C12_Witness ==
  /\ rt_prev.called /\ rt_last.called
  /\ rt_prev.b = rt_last.b /\ rt_prev.bl = rt_last.bl
  /\ rt_prev.cpu = rt_last.cpu
  /\ rt_prev.cloud_ok /\ rt_prev.net_ms < 0
  /\ rt_last.cloud_ok /\ rt_last.net_ms = NET_SLOW_MS
  /\ rt_prev.decision = "RUN_CLOUD"
  /\ Tags(rt_prev.reasons) # Tags(rt_last.reasons)

\* The largest element of a non-empty set of numbers.
Largest(S) == CHOOSE x \in S : \A y \in S : y <= x

\* C13: the value _is_complete returned on a result document is false when
\* status is error or pending_cloud, true when status is skipped, true when
\* there are no detections, and otherwise true exactly when the largest
\* detection value is at least the completion threshold; the call leaves its
\* argument as it was.
C13_IsComplete ==
  ic_out # "None" =>
    LET values == {ic_doc.detections[i] : i \in 1..Len(ic_doc.detections)}
        expected ==
          IF ic_doc.status \in {"error", "pending_cloud"} THEN "False"
          ELSE IF ic_doc.status = "skipped" THEN "True"
          ELSE IF values = {} THEN "True"
          ELSE IF Largest(values) >= COMPLETE_THRESH THEN "True"
          ELSE "False"
    IN  ic_out = expected /\ ic_doc \in ResultDocs

\* C13 witness: a document whose largest detection value is exactly the
\* threshold was found complete.
C13_Witness ==
  /\ ic_out = "True"
  /\ ic_doc.status = "ok"
  /\ ic_doc.detections = <<COMPLETE_THRESH - 1, COMPLETE_THRESH>>

InBuffer(path) == path \in Paths(segs)

\* The entries evict may drop: those whose path is not pinned.
Evictable == {segs[i] : i \in {j \in 1..Len(segs) : segs[j].path \notin _pinned}}

Stale(e) == e.ts < rb_now - keep_seconds

\* C14: no step of the buffer (add, pin_many, unpin_many, evict) drops from
\* the deque or removes from disk an entry whose path is pinned when the
\* step is taken.
C14_EvictKeepsPinned ==
  [][\A path \in _pinned :
       /\ InBuffer(path) => InBuffer(path)'
       /\ (InBuffer(path) /\ path \in disk) => path \in disk']_vars

\* C14 witness: evict has just dropped an unpinned stale entry and removed
\* its file while a pinned stale entry is still in the deque and on disk.
C14_Witness ==
  /\ rb_op = "evict"
  /\ \E i \in 1..Len(segs) :
       Stale(segs[i]) /\ segs[i].path \in _pinned /\ segs[i].path \in disk
  /\ \E path \in rb_added : ~InBuffer(path) /\ path \notin disk

\* C15: right after evict (called directly or at the end of add) the deque
\* holds no unpinned entry with ts < now - keep_seconds.
C15_NoStaleUnpinnedAfterEvict ==
  rb_op \in {"evict", "add"} => \A e \in Evictable : ~Stale(e)

\* C16: the deque is in ascending ts order, and snapshot_last(seconds)
\* returns, in ascending ts order, exactly the paths with
\* ts >= now - seconds.
C16_AscendingOrder ==
  /\ \A i, j \in 1..Len(segs) : i < j => segs[i].ts <= segs[j].ts
  /\ \A seconds \in 0..MaxNow :
       LET snap == snapshot_last(segs, seconds, rb_now) IN
       /\ {snap[i] : i \in 1..Len(snap)} =
            {e.path : e \in {x \in {segs[k] : k \in 1..Len(segs)} :
                               x.ts >= rb_now - seconds}}
       /\ \A i, j \in 1..Len(snap) : i < j => snap[i] <= snap[j]

\* C17: pin_many(S) followed by unpin_many(S) leaves the set of evictable
\* entries as it was before the two calls.
C17_PinUnpinNoOp ==
  [][rb_op' = "pin_unpin" => Evictable' = Evictable]_vars

\* C17 amended: pin_many(S) followed by unpin_many(S), for a set S none of
\* whose paths is pinned before the two calls, leaves the set of evictable
\* entries and the set of pinned paths as they were.
C17_PinUnpinNoOpOnUnpinned ==
  [][(rb_op' = "pin_unpin" /\ rb_arg' \cap _pinned = {})
       => Evictable' = Evictable /\ _pinned' = _pinned]_vars

\* C17 witness: the two calls were made on paths of the deque, none pinned
\* before, while another entry of the deque is pinned.
C17_Witness ==
  /\ rb_op = "pin_unpin"
  /\ rb_arg # {} /\ rb_arg \subseteq Paths(segs) /\ rb_arg \cap _pinned = {}
  /\ Paths(segs) \cap _pinned # {}
  /\ {e.path : e \in Evictable} = Paths(segs) \ _pinned

\* C18: once concat_mp4 has failed at the finalize of an event, there is no
\* package directory of the event (so no incident.json, DONE or NEEDS_CLOUD),
\* no analysis job of it was enqueued, the FSM has left the event and is
\* idle with no segment pinned until the next event starts.
C18_ConcatFailure ==
  \A e \in concat_failed :
    /\ e \notin Packages
    /\ ~JobQueued(e) /\ aw_job.event_id # e
    /\ e \notin finished \cup unqueued \cup analyzing_ids
    /\ evt_id # e
    /\ evt_state = "idle" => _pinned = {}
    /\ (cap_pc = "frame" /\ ts = e + EVENT_OFF_SECONDS + POSTROLL_SECONDS)
         => evt_state = "idle"

\* C19: an event whose finalize met a full analysis queue has clip.mp4 and
\* incident.json, got DONE from the capture thread as the next and last
\* write, has no job queued or in the worker's hands, no result.json, its
\* incident.json as finalize wrote it (analysis.status pending, or ok for
\* RECORD_ONLY; routing.complete unset), and is not in the analyzing set.
C19_AnalysisQueueFull ==
  \A e \in unqueued :
    /\ pkg[e].clip /\ pkg[e].incident.exists /\ pkg[e].done
    /\ pkg[e].log = <<"clip.mp4", "incident.json", "DONE">>
    /\ ~pkg[e].result.exists /\ ~pkg[e].needs_cloud
    /\ ~JobQueued(e) /\ aw_job.event_id # e
    /\ e \notin finished \cup runner_calls \cup raised
    /\ pkg[e].incident.analysis_status =
         (IF start_decision[e] = "RECORD_ONLY" THEN "ok" ELSE "pending")
    /\ pkg[e].incident.complete = "None"
    /\ e \notin analyzing_ids

\* C19 witness: the second event met the full queue while the job of the
\* first was still waiting, and has DONE.
C19_Witness ==
  \E e \in unqueued :
    /\ pkg[e].done /\ pkg[e].incident.analysis_status = "pending"
    /\ analysis_q # <<>> /\ e \notin analyzing_ids

\* C20: an event whose staging job the full cloud queue refused has both
\* NEEDS_CLOUD and DONE, the worker did not raise on it, no staging job of it
\* is queued or written, and the worker is ending the job or has ended it.
C20_CloudQueueFull ==
  \A e \in cloud_dropped :
    /\ pkg[e].needs_cloud /\ pkg[e].done
    /\ e \notin raised
    /\ pkg[e].result.status # "error" \/ e \in runner_calls
    /\ ~InQueue(cloud_q, e) /\ e \notin cloud_jobs
    /\ \/ aw_job.event_id = e /\ aw_pc = "finally"
       \/ e \in finished /\ aw_job.event_id # e

\* C20 witness: the worker ended the job whose staging was refused and is
\* waiting for its next job.
C20_Witness ==
  \E e \in cloud_dropped :
    /\ e \in finished /\ aw_pc = "get"
    /\ pkg[e].needs_cloud /\ pkg[e].done /\ cloud_q # <<>>

\* The number of jobs of event e that entered the analysis queue.
Enqueues(e) ==
  Cardinality({i \in 1..Len(enqueued) : enqueued[i].event_id = e})

\* Finalize of event e is over: its package directory was made and the FSM
\* has left the event.
Finalized(e) == e \in Packages /\ evt_id # e

\* C21 as claimed: for every event whose finalize is over, exactly one job
\* with its event_id entered the analysis queue.
C21_ExactlyOneJob ==
  \A e \in Ids : Finalized(e) => Enqueues(e) = 1

\* C21 as amended: at most one job of an event ever enters the analysis
\* queue, none before its finalize, and once finalize is over exactly one
\* unless concat failed or the queue was full (then none).
C21_AtMostOneJob ==
  \A e \in Ids :
    /\ Enqueues(e) <= 1
    /\ e \notin Packages => Enqueues(e) = 0
    /\ Finalized(e) =>
         (Enqueues(e) = 1 <=> e \notin concat_failed \cup unqueued)
    /\ \A i \in 1..Len(enqueued) :
         enqueued[i].event_id = e => enqueued[i].decision = start_decision[e]

\* C21 witness: two events were finalized, the first enqueued once and the
\* second refused by the full queue.
C21_Witness ==
  \E e1 \in Ids, e2 \in unqueued :
    /\ Finalized(e1) /\ Finalized(e2)
    /\ Enqueues(e1) = 1 /\ Enqueues(e2) = 0

\* C22: from idle -> active until the return to idle an event keeps its
\* event_id and its start time, a new id is minted only out of idle, and an
\* active event stays active, with its id, through every frame in which the
\* last motion is less than EVENT_OFF_SECONDS old (so a second burst of
\* motion that comes sooner belongs to the same event).
C22_OneEventIdPerEvent ==
  [][/\ (evt_state # "idle" /\ evt_state' # "idle")
          => (evt_id' = evt_id /\ evt_start' = evt_start)
     /\ evt_id' \notin {evt_id, NoEvent} => evt_state = "idle"
     /\ (evt_state = "active" /\ ts' # ts
           /\ ts' - last_motion_ts' < EVENT_OFF_SECONDS)
          => (evt_state' = "active" /\ evt_id' = evt_id)
     /\ Cardinality(DOMAIN pkg') <= Cardinality(DOMAIN start_decision')]_vars

\* C22 witness: motion in postroll brought motion_streak back to
\* EVENT_ON_FRAMES and the FSM is active again (postroll_until is still set
\* from the postroll it left) under the id minted at the start.
C22_Witness ==
  /\ evt_state = "active" /\ postroll_until > 0
  /\ last_motion_ts = ts /\ motion_streak = EVENT_ON_FRAMES
  /\ evt_id = evt_start /\ evt_id < ts - EVENT_OFF_SECONDS
  /\ DOMAIN start_decision = {evt_id}

\* C23: at the end of every frame an active event has counted at most
\* MAX_EVENT_SEC seconds of frames (one frame is one second), a frame that
\* exceeds it leaving the FSM in postroll; so an event never counts more
\* than one frame beyond the bound.
C23_MaxEventForcesPostroll ==
  /\ evt_state = "active" => s_event_frm <= MAX_EVENT_SEC
  /\ evt_state # "idle" => s_event_frm <= MAX_EVENT_SEC + 1

\* C24: every incident.json written at finalize has started_at <= ended_at
\* and ended_at - started_at <= MAX_EVENT_SEC + POSTROLL_SECONDS plus a
\* tolerance of two frames (one for the frame that exceeds max_event_seconds,
\* one for the frame that notices the end of postroll).
C24_DurationBounded ==
  \A e \in Packages :
    pkg[e].incident.exists =>
      /\ pkg[e].incident.started_at <= pkg[e].incident.ended_at
      /\ pkg[e].incident.ended_at - pkg[e].incident.started_at
           <= MAX_EVENT_SEC + POSTROLL_SECONDS + 2

\* No frame has shown motion so far (last_motion_ts is set from the frame's
\* time, which is positive, in every motion frame).
NoMotionYet == last_motion_ts = 0

\* C25: as long as no frame has shown motion the FSM is idle, no event id
\* was minted, nothing is pinned, no package directory exists, nothing
\* entered the analysis queue; and the ring holds no segment older than
\* keep_seconds at the latest add (one segment ago at most), the files of
\* the dropped segments being gone.
C25_NoMotionNoEvent ==
  NoMotionYet =>
    /\ evt_state = "idle" /\ cap_pc = "frame"
    /\ evt_id = NoEvent /\ DOMAIN start_decision = {}
    /\ _pinned = {}
    /\ Packages = {}
    /\ analysis_q = <<>> /\ enqueued = <<>> /\ analyzing_ids = {}
    /\ \A i \in 1..Len(segs) :
         segs[i].ts >= ts - keep_seconds - SEGMENT_SECONDS
    /\ disk \subseteq Paths(segs) \cup {seg_start}

\* C25 witness: a run of quiet frames longer than keep_seconds, in which
\* the first segments were dropped from the ring and from the disk.
C25_Witness ==
  /\ NoMotionYet /\ ts > keep_seconds + 2 * SEGMENT_SECONDS
  /\ segs # <<>> /\ segs[1].ts > 1 /\ 1 \notin disk
  /\ evt_state = "idle"

\* p comes before q wherever both occur in the list L.
Before(L, p, q) ==
  \A i, j \in 1..Len(L) : (L[i] = p /\ L[j] = q) => i < j

\* C26: when finalize is about to call concat_mp4, the de-duplicated list
\* has no path twice and holds exactly the paths of preroll, active and
\* postroll; pre-roll paths come before active paths (and are none of
\* them), active paths before the paths found in post-roll only; and every
\* listed file is pinned and exists on disk.
C26_ConcatList ==
  cap_pc = "concat" =>
    LET L == Dedupe(all_segs)
        pre == Range(evt_preroll)
        act == Range(evt_segs)
        postonly == Range(postroll_segs) \ (pre \cup act)
    IN  /\ \A i, j \in 1..Len(L) : i # j => L[i] # L[j]
        /\ Range(L) = pre \cup act \cup Range(postroll_segs)
        /\ pre \cap act = {}
        /\ \A p \in pre, q \in act : Before(L, p, q)
        /\ \A p \in act, q \in postonly : Before(L, p, q)
        /\ Range(L) \subseteq _pinned
        /\ Range(L) \subseteq disk
        /\ Existing(all_segs, disk) = L

\* C26 witness: finalize of an event that outlasted keep_seconds: the
\* pre-roll segments are older than the cutoff and still on disk, and the
\* post-roll snapshot repeats paths of the active list.
C26_Witness ==
  /\ cap_pc = "concat"
  /\ evt_preroll # <<>> /\ evt_segs # <<>>
  /\ \A p \in Range(evt_preroll) : p < ts - keep_seconds /\ p \in disk
  /\ Range(postroll_segs) \cap Range(evt_segs) # {}
  /\ Len(Dedupe(all_segs)) < Len(all_segs)

\* C27: the capture thread runs no subprocess: concat, the browser-ready
\* re-encode and inference are all run by another thread.  (The health URL
\* is not configured in the model, so the capture thread makes no network
\* call at all.)
C27_CaptureRunsNoSubprocess ==
  \A c \in subprocs : c.thread # "capture"

\* C28: whatever a reader was sent for incident.json, result.json or
\* cloud_job.json is a whole document, the one whose length was announced,
\* never a partly written file.
C28_ReadersSeeWholeDocuments ==
  rd_seen.sent =>
    /\ rd_seen.content # Partial
    /\ rd_seen.len_of = rd_seen.content

LastStaged(e) ==
  LET S == {i \in 1..Len(st_log) : st_log[i].event_id = e /\ st_log[i].ok}
  IN  IF S = {} THEN 0 ELSE CHOOSE i \in S : \A j \in S : j <= i
JobFiles(e) == DOMAIN st_fs[e] \ TmpNames

\* C30: however often an event id was staged, cloud_pending/<event_id>/
\* holds exactly one cloud_job.json, the one of the latest staging that
\* went through; a staging that failed leaves what was staged before, the
\* worker goes on to task_done and to the next job, and the DONE and
\* NEEDS_CLOUD markers of the packages stay.
C30_StagingIdempotent ==
  /\ \A e \in StageEvents :
       /\ LastStaged(e) > 0 =>
            /\ e \in st_dirs
            /\ JobFiles(e) = {"cloud_job.json"}
            /\ st_fs[e]["cloud_job.json"] = CloudJobDoc(e, LastStaged(e))
       /\ LastStaged(e) = 0 => JobFiles(e) = {}
       /\ (\E i \in 1..Len(st_log) : st_log[i].event_id = e) =>
            st_pkg[e] = {"DONE", "NEEDS_CLOUD"}
  /\ st_pc \in {"get", "makedirs", "mkstemp", "dump", "replace", "count",
                "task_done"}
  /\ st_done = IF st_pc \in {"count", "task_done"} THEN Len(st_log) - 1
               ELSE Len(st_log)
  /\ st_puts = Len(st_q) + st_done + (IF st_pc = "get" THEN 0 ELSE 1)

\* C30 happens: event 1 was staged twice, a staging of event 2 failed in
\* between, and the worker is back at its queue.
C30_Witness ==
  /\ Len(st_log) = 3 /\ st_pc = "get"
  /\ st_log[1] = [event_id |-> 1, ok |-> TRUE]
  /\ st_log[2] = [event_id |-> 2, ok |-> FALSE]
  /\ st_log[3] = [event_id |-> 1, ok |-> TRUE]
  /\ st_fs[1]["cloud_job.json"].queued_at = 3

\* A step that is a frame of the capture loop, the frame showing motion, and
\* the frame starting an event.
IsFrame == cap_pc = "frame" /\ ts' = ts + 1
MotionSeen == last_motion_ts' = ts'
EventStarts == IsFrame /\ evt_state = "idle" /\ evt_start' = ts'

\* C31: in every frame motion_streak goes up by 1 on motion and down by 1,
\* not below 0, without; an event starts only in a frame that shows motion
\* and brings the streak to event_on_frames, so never in a quiet frame on
\* a streak left from the event before.
C31_StartNeedsMotion ==
  [][ /\ IsFrame =>
           motion_streak' = IF MotionSeen THEN motion_streak + 1
                            ELSE IF motion_streak > 0 THEN motion_streak - 1
                            ELSE 0
      /\ EventStarts =>
           /\ MotionSeen
           /\ motion_streak' >= EVENT_ON_FRAMES
    ]_vars

\* C31 happens: after an earlier event was finalized, an event has just
\* started in the motion frame that brought the streak to event_on_frames.
C31_Witness ==
  /\ evt_state = "active" /\ evt_start = ts /\ last_motion_ts = ts
  /\ motion_streak = EVENT_ON_FRAMES
  /\ \E e \in Ids : e < evt_id /\ Finalized(e)

\* C32: in a frame of postroll with no motion since postroll was entered
\* (at postroll_until - postroll_seconds), postroll_until stays, the FSM
\* does not go back to active, and finalize begins as soon as the frame's
\* time has reached postroll_until.
C32_QuietPostrollFinalizes ==
  [][ ( /\ IsFrame /\ evt_state = "postroll"
        /\ last_motion_ts' < postroll_until - POSTROLL_SECONDS ) =>
        /\ postroll_until' = postroll_until
        /\ evt_state' = "postroll"
        /\ (ts' >= postroll_until => cap_pc' = "concat")
    ]_vars

\* C33: while the FSM is active or postroll, every path of evt_preroll and
\* evt_segs is pinned and in the ring buffer (and its file on disk); a
\* segment that enters the ring during the event enters evt_segs and the
\* pinned set in the same step.
C33_EventSegsPinned ==
  [][ (evt_state' \in {"active", "postroll"}) =>
        /\ \A p \in Range(evt_preroll') \cup Range(evt_segs') :
             p \in _pinned' /\ InBuffer(p)' /\ p \in disk'
        /\ (evt_state \in {"active", "postroll"}) =>
             \A p \in Paths(segs') \ Paths(segs) :
               p \in Range(evt_segs') /\ p \in _pinned'
    ]_vars

\* C33 happens: the event has outlasted keep_seconds, so that its pre-roll
\* is stale and kept only by its pin, and segments closed during the event
\* are listed; evict has met the stale pinned entries and rotated them.
C33_Witness ==
  /\ evt_state = "postroll"
  /\ evt_preroll # <<>> /\ Len(evt_segs) >= 2
  /\ \E i \in 1..Len(segs) :
       /\ segs[i].path \in Range(evt_preroll)
       /\ segs[i].ts < ts - keep_seconds
  /\ \E i, j \in 1..Len(segs) : i < j /\ segs[i].ts > segs[j].ts

\* C34: when the FSM is idle at the end of a frame (finalize included), no
\* path is pinned, whether concat succeeded or failed.
C34_IdleMeansNoPins ==
  (cap_pc = "frame" /\ evt_state = "idle") => _pinned = {}

\* C34 happens: the FSM is idle after one event whose concat failed and one
\* whose concat succeeded, and the segments of both are in the ring, unpinned.
C34_Witness ==
  /\ cap_pc = "frame" /\ evt_state = "idle"
  /\ concat_failed # {} /\ Packages \ concat_failed # {}
  /\ Len(segs) >= 2 /\ _pinned = {}

\* The distinct paths of concat_mp4's argument that exist, and the place
\* where a path comes first in a list.
DistinctExisting == {p \in Range(cc_in) : p \in cc_disk}
FirstAt(L, p) == CHOOSE i \in 1..Len(L) : L[i] = p /\ \A j \in 1..(i - 1) : L[j] # p

\* C35: with fewer than two distinct existing paths concat_mp4 returns
\* False and runs nothing; otherwise the stream copy runs first on the
\* de-duplicated existing paths in their order, the re-encode runs only
\* after a failed stream copy, True is returned exactly when one of the two
\* succeeded, and no manifest is left whatever the outcome.
C35_ConcatOutcomes ==
  cc_pc = "done" =>
    /\ cc_manifest = Absent
    /\ IF Cardinality(DistinctExisting) < 2
       THEN cc_ret = "False" /\ cc_runs = <<>>
       ELSE /\ Len(cc_runs) \in {1, 2}
            /\ cc_runs[1].cmd = "copy"
            /\ Range(cc_runs[1].list) = DistinctExisting
            /\ Len(cc_runs[1].list) = Cardinality(DistinctExisting)
            /\ \A i, j \in 1..Len(cc_runs[1].list) :
                 i < j => FirstAt(cc_in, cc_runs[1].list[i])
                            < FirstAt(cc_in, cc_runs[1].list[j])
            /\ Len(cc_runs) = 2 <=>
                 cc_runs[1].rc = "nonzero"
            /\ Len(cc_runs) = 2 =>
                 cc_runs[2].cmd = "reencode" /\ cc_runs[2].list = cc_runs[1].list
            /\ cc_ret = "True" <=>
                 \E i \in 1..Len(cc_runs) : cc_runs[i].rc = "zero"

\* C35 happens: of a list with a repeated and a missing path, the stream
\* copy failed, the re-encode succeeded, and the call is over.
C35_Witness ==
  /\ cc_pc = "done" /\ cc_ret = "True"
  /\ Len(cc_runs) = 2
  /\ Len(cc_in) > Cardinality(Range(cc_in))
  /\ Range(cc_in) \ cc_disk # {}

\* The paths in the deque of the driven buffer; a segment past
\* keep_seconds that nothing pins: its entry is stale, or evict has dropped
\* the entry and os.remove left the file; and a segment wholly gone.
RvInDeque(p) == \E i \in 1..Len(rv_segs) : rv_segs[i].path = p
RvDue(p) ==
  /\ p \in rv_disk /\ p \notin rv_pinned
  /\ \A i \in 1..Len(rv_segs) : rv_segs[i].path = p => RvStale(rv_segs[i])
RvGone(p) == p \notin rv_disk /\ ~RvInDeque(p)

\* C36: while segments keep being added, a segment that is unpinned and
\* older than keep_seconds is in the end out of the deque and off the disk
\* (unless it is pinned again first), whether it was pinned when it aged
\* out or its unlink failed.
C36_EventuallyEvicted ==
  ([]<><<RvAdd>>_vars) =>
    \A p \in RvPaths : [](RvDue(p) => <>(RvGone(p) \/ p \in rv_pinned))

\* C37: a call of evict makes no more than two loop iterations for each
\* entry the deque had and then returns, whatever the deque and the pinned
\* set hold;
\* when every entry was pinned it returns with the same entries and files.
C37_EvictTerminates ==
  /\ [](rv_iter <= 2 * Len(rv_at_call.segs))
  /\ []((rv_pc = "idle" /\ rv_at_call # NoEvictCall
           /\ RvAllPinned(rv_at_call.segs, rv_at_call.pinned)) =>
         /\ rv_disk = rv_at_call.disk
         /\ Len(rv_segs) = Len(rv_at_call.segs)
         /\ Paths(rv_segs) = Paths(rv_at_call.segs))
  /\ (rv_pc = "evict" ~> rv_pc = "idle")

\* C37 happens: evict has returned after rotating stale pinned entries and
\* dropping a stale unpinned one, with a fresh entry left in the deque.
C37_Witness ==
  /\ rv_pc = "idle" /\ rv_iter >= 2
  /\ Len(rv_segs) < Len(rv_at_call.segs)
  /\ \E i \in 1..Len(rv_segs) : RvStale(rv_segs[i]) /\ rv_segs[i].path \in rv_pinned
  /\ \E i \in 1..Len(rv_segs) : ~RvStale(rv_segs[i])

\* ------------------------------------------- _analyzing_ids and its count
\* Events finalized in one run.
AzEvents == 3

AzFrame ==
  UNCHANGED <<node_vars, ring_vars, router_vars, complete_vars,
              ring_test_vars, json_vars, frq_vars, stage_vars, concat_vars,
              evict_vars, up_vars>>

AzInit ==
  /\ NodeInit /\ RingInit /\ RouterIdle /\ CompleteIdle /\ RingTestIdle
  /\ JsonIdle /\ FrqIdle /\ StageIdle /\ ConcatIdle /\ EvictIdle /\ AzIdle
  /\ UpIdle

\* with _analyzing_lock: _analyzing_ids.add(eid)
LockedAdd(ids, eid) == ids \cup {eid}

\* with _analyzing_lock: _analyzing_ids.discard(eid)
LockedDiscard(ids, eid) == ids \ {eid}

\* capture_loop, finalize with the clip written: _add_analyzing(_eid) takes
\* the lock and adds the id.
AzCapAdd ==
  /\ az_cap_pc = "idle" /\ az_next <= AzEvents
  /\ az_cap_eid' = az_next /\ az_next' = az_next + 1
  /\ az_ids' = LockedAdd(az_ids, az_next)
  /\ az_cap_pc' = "add_len"
  /\ UNCHANGED <<az_count, az_q, az_cap_len, az_wrk_pc, az_wrk_eid, az_wrk_len>>
  /\ AzFrame

\* The argument of _patch is evaluated with the lock released.
AzCapLen ==
  /\ az_cap_pc \in {"add_len", "rm_len"}
  /\ az_cap_len' = Cardinality(az_ids)
  /\ az_cap_pc' = IF az_cap_pc = "add_len" THEN "add_patch" ELSE "rm_patch"
  /\ UNCHANGED <<az_ids, az_count, az_q, az_next, az_cap_eid, az_wrk_pc,
                 az_wrk_eid, az_wrk_len>>
  /\ AzFrame

\* _patch({"analyzing_count": ...}) under _state_lock; _add_analyzing or
\* _remove_analyzing returns.
AzCapPatch ==
  /\ az_cap_pc \in {"add_patch", "rm_patch"}
  /\ az_count' = az_cap_len
  /\ az_cap_pc' = IF az_cap_pc = "add_patch" THEN "put" ELSE "idle"
  /\ az_cap_eid' = IF az_cap_pc = "add_patch" THEN az_cap_eid ELSE NoEvent
  /\ UNCHANGED <<az_ids, az_q, az_next, az_cap_len, az_wrk_pc, az_wrk_eid,
                 az_wrk_len>>
  /\ AzFrame

\* _analysis_q.put_nowait(job); on queue.Full _remove_analyzing(_eid) takes
\* the lock and discards the id.
AzCapPut ==
  /\ az_cap_pc = "put"
  /\ IF Len(az_q) < AnalysisQMax
       THEN /\ az_q' = Append(az_q, az_cap_eid)
            /\ az_cap_pc' = "idle" /\ az_cap_eid' = NoEvent
            /\ UNCHANGED az_ids
       ELSE /\ az_ids' = LockedDiscard(az_ids, az_cap_eid)
            /\ az_cap_pc' = "rm_len"
            /\ UNCHANGED <<az_q, az_cap_eid>>
  /\ UNCHANGED <<az_count, az_next, az_cap_len, az_wrk_pc, az_wrk_eid,
                 az_wrk_len>>
  /\ AzFrame

\* analysis_worker: job = _analysis_q.get(), then the work on the job.
AzWrkGet ==
  /\ az_wrk_pc = "idle" /\ az_q # <<>>
  /\ az_wrk_eid' = Head(az_q) /\ az_q' = Tail(az_q)
  /\ az_wrk_pc' = "work"
  /\ UNCHANGED <<az_ids, az_count, az_next, az_cap_pc, az_cap_eid, az_cap_len,
                 az_wrk_len>>
  /\ AzFrame

\* finally: _remove_analyzing(event_id) takes the lock and discards the id.
AzWrkDiscard ==
  /\ az_wrk_pc = "work"
  /\ az_ids' = LockedDiscard(az_ids, az_wrk_eid)
  /\ az_wrk_pc' = "rm_len"
  /\ UNCHANGED <<az_count, az_q, az_next, az_cap_pc, az_cap_eid, az_cap_len,
                 az_wrk_eid, az_wrk_len>>
  /\ AzFrame

AzWrkLen ==
  /\ az_wrk_pc = "rm_len"
  /\ az_wrk_len' = Cardinality(az_ids)
  /\ az_wrk_pc' = "rm_patch"
  /\ UNCHANGED <<az_ids, az_count, az_q, az_next, az_cap_pc, az_cap_eid,
                 az_cap_len, az_wrk_eid>>
  /\ AzFrame

\* _patch, then _analysis_q.task_done()
AzWrkPatch ==
  /\ az_wrk_pc = "rm_patch"
  /\ az_count' = az_wrk_len
  /\ az_wrk_pc' = "idle" /\ az_wrk_eid' = NoEvent
  /\ UNCHANGED <<az_ids, az_q, az_next, az_cap_pc, az_cap_eid, az_cap_len,
                 az_wrk_len>>
  /\ AzFrame

AzNext ==
  \/ AzCapAdd \/ AzCapLen \/ AzCapPatch \/ AzCapPut
  \/ AzWrkGet \/ AzWrkDiscard \/ AzWrkLen \/ AzWrkPatch

AzSpec == AzInit /\ [][AzNext]_vars

\* A thread is inside _add_analyzing or _remove_analyzing.
AzInside(pc) == pc \in {"add_len", "add_patch", "rm_len", "rm_patch"}

\* The job of event e is queued, being processed, or being enqueued.
AzJobLive(e) ==
  \/ e \in Range(az_q)
  \/ az_wrk_eid = e /\ az_wrk_pc # "idle"
  \/ az_cap_eid = e /\ az_cap_pc # "idle"

\* C38: whenever neither thread is inside _add_analyzing or
\* _remove_analyzing, the published analyzing_count equals the size of
\* _analyzing_ids, and an event id is in the set only while its job is
\* queued or being processed (the enqueue in progress counted as queued).
C38_AnalyzingCountExact ==
  /\ (~AzInside(az_cap_pc) /\ ~AzInside(az_wrk_pc)) =>
       az_count = Cardinality(az_ids)
  /\ \A e \in az_ids : AzJobLive(e)

\* C38, second half alone.
C38_IdsHaveJobs == \A e \in az_ids : AzJobLive(e)

\* ------------------------------------------------------ uploader_worker
\* Packages the node finalizes, and rows the incidents table is followed to.
UpPkgs == 2
UpMaxRows == 2

UpFrame ==
  UNCHANGED <<ring_vars, router_vars, complete_vars, ring_test_vars,
              json_vars, frq_vars, stage_vars, concat_vars, evict_vars,
              az_vars>>

\* load_state() with no state file: the same start as the node's.
UpInit == Init

\* capture_loop's finalize seen from events/final: the package directory
\* with clip.mp4 and incident.json, then the job on _analysis_q or, on
\* queue.Full, DONE without inference.
UpFinalize ==
  /\ Cardinality(DOMAIN pkg) < UpPkgs
  /\ \E dec \in {"RECORD_ONLY", "RUN_CLOUD", "RUN_LOCAL"} :
       LET e == Cardinality(DOMAIN pkg) + 1
           p == WriteIncident(WriteClip(NewPkg), _make_incident(0, 0, dec))
       IN  IF Len(analysis_q) < AnalysisQMax
           THEN /\ analysis_q' = put_nowait(analysis_q,
                       [event_id |-> e, decision |-> dec])
                /\ analyzing_ids' = analyzing_ids \cup {e}
                /\ pkg' = (e :> p) @@ pkg
                /\ UNCHANGED unqueued
           ELSE /\ analyzing_ids' = QueueFullAnalyzing(analyzing_ids, e)
                /\ pkg' = (e :> QueueFullPkg(p)) @@ pkg
                /\ unqueued' = unqueued \cup {e}
                /\ UNCHANGED analysis_q
  /\ enqueued' = enqueued \o SubSeq(analysis_q', Len(analysis_q) + 1,
                                    Len(analysis_q'))
  /\ UNCHANGED <<capture_vars, worker_vars, cloud_vars, raised, finished,
                 runner_calls, nonzero_exit, cloud_dropped, start_decision,
                 concat_failed, subprocs>>
  /\ UNCHANGED <<ring_vars, unit_vars>>

\* sorted(EVENTS_FINAL_DIR.iterdir())
SortedDirs(dirs) ==
  CHOOSE s \in [1..Cardinality(dirs) -> dirs] :
    \A i, j \in 1..Cardinality(dirs) : i < j => s[i] < s[j]

\* resolve_status
resolve_status(needs_cloud, incident, result) ==
  IF needs_cloud THEN "pending_cloud_verification"
  ELSE IF result.status = "pending_cloud" THEN "pending_cloud_verification"
  ELSE IF incident.cloud_needed THEN "pending_cloud_verification"
  ELSE "stored"

\* process_event_dir returned or raised: run_loop goes on to the next
\* directory of the pass.
UpLeave ==
  /\ up_todo' = Tail(up_todo)
  /\ up_pc' = IF Tail(up_todo) = <<>> THEN "sleep" ELSE "check"
  /\ up_inc' = NoIncident /\ up_res' = NoResult /\ up_status' = Absent

\* run_loop: a pass begins with the directories there are now.
UpScan ==
  /\ up_pc = "sleep"
  /\ DOMAIN pkg # {}
  /\ up_todo' = SortedDirs(DOMAIN pkg)
  /\ up_pc' = "check"
  /\ UNCHANGED <<up_inc, up_res, up_status, up_done_ids, up_state_file,
                 up_sb_done, up_rows>>
  /\ UNCHANGED node_vars /\ UpFrame

\* process_event_dir, the tests before normalize_event.
Ingestible(p, e, done_ids, sb_done) ==
  /\ p.done
  /\ e \notin done_ids /\ e \notin sb_done
  /\ p.incident.exists \/ p.result.exists

UpCheck ==
  /\ up_pc = "check"
  /\ LET e == Head(up_todo) IN
     IF Ingestible(pkg[e], e, up_done_ids, up_sb_done)
     THEN /\ up_pc' = "load_incident"
          /\ UNCHANGED <<up_todo, up_inc, up_res, up_status>>
     ELSE UpLeave
  /\ UNCHANGED <<up_done_ids, up_state_file, up_sb_done, up_rows>>
  /\ UNCHANGED node_vars /\ UpFrame

\* normalize_event: load_json(event_dir / "incident.json")
UpLoadIncident ==
  /\ up_pc = "load_incident"
  /\ up_inc' = pkg[Head(up_todo)].incident
  /\ up_pc' = "load_result"
  /\ UNCHANGED <<up_todo, up_res, up_status, up_done_ids, up_state_file,
                 up_sb_done, up_rows>>
  /\ UNCHANGED node_vars /\ UpFrame

\* normalize_event: load_json(event_dir / "result.json")
UpLoadResult ==
  /\ up_pc = "load_result"
  /\ up_res' = pkg[Head(up_todo)].result
  /\ up_pc' = "resolve"
  /\ UNCHANGED <<up_todo, up_inc, up_status, up_done_ids, up_state_file,
                 up_sb_done, up_rows>>
  /\ UNCHANGED node_vars /\ UpFrame

\* normalize_event: result.get raises on a document that is no object;
\* else resolve_status with NEEDS_CLOUD as it is on disk now.
UpResolve ==
  /\ up_pc = "resolve"
  /\ IF ~up_res.dict
     THEN UpLeave
     ELSE /\ up_status' = resolve_status(pkg[Head(up_todo)].needs_cloud,
                                         up_inc, up_res)
          /\ up_pc' = "insert"
          /\ UNCHANGED <<up_todo, up_inc, up_res>>
  /\ UNCHANGED <<up_done_ids, up_state_file, up_sb_done, up_rows>>
  /\ UNCHANGED node_vars /\ UpFrame

\* insert_incident(row): the row is in the table, or the request fails and
\* process_event_dir raises.
UpInsert ==
  /\ up_pc = "insert"
  /\ \/ /\ Len(up_rows) < UpMaxRows
        /\ up_rows' = Append(up_rows,
              [event_id |-> Head(up_todo), status |-> up_status])
        /\ up_pc' = "media"
        /\ UNCHANGED <<up_todo, up_inc, up_res, up_status>>
     \/ /\ UpLeave
        /\ UNCHANGED up_rows
  /\ UNCHANGED <<up_done_ids, up_state_file, up_sb_done>>
  /\ UNCHANGED node_vars /\ UpFrame

\* upload_media_files: a refused upload is logged and the function returns;
\* requests.post raising (connection error, timeout) leaves
\* process_event_dir.
MediaOutcomes == {"returned", "raised"}

UpMedia ==
  /\ up_pc = "media"
  /\ \E o \in MediaOutcomes :
       IF o = "returned"
       THEN /\ up_pc' = "state"
            /\ UNCHANGED <<up_todo, up_inc, up_res, up_status>>
       ELSE UpLeave
  /\ UNCHANGED <<up_done_ids, up_state_file, up_sb_done, up_rows>>
  /\ UNCHANGED node_vars /\ UpFrame

\* done_ids.add(event_id); save_state(done_ids), which may raise with
\* done_ids already extended.
UpSaveState ==
  /\ up_pc = "state"
  /\ up_done_ids' = up_done_ids \cup {Head(up_todo)}
  /\ \/ /\ up_state_file' = up_done_ids'
        /\ up_pc' = "mark"
        /\ UNCHANGED <<up_todo, up_inc, up_res, up_status>>
     \/ /\ UpLeave
        /\ UNCHANGED up_state_file
  /\ UNCHANGED <<up_sb_done, up_rows>>
  /\ UNCHANGED node_vars /\ UpFrame

\* (event_dir / "SUPABASE_DONE").write_text(now_iso()), which may raise.
UpMark ==
  /\ up_pc = "mark"
  /\ \/ up_sb_done' = up_sb_done \cup {Head(up_todo)}
     \/ UNCHANGED up_sb_done
  /\ UpLeave
  /\ UNCHANGED <<up_done_ids, up_state_file, up_rows>>
  /\ UNCHANGED node_vars /\ UpFrame

Uploader ==
  \/ UpScan \/ UpCheck \/ UpLoadIncident \/ UpLoadResult \/ UpResolve
  \/ UpInsert \/ UpMedia \/ UpSaveState \/ UpMark

UpNext == UpFinalize \/ AnalysisWorker \/ CloudWorker \/ Uploader

UpSpec == UpInit /\ [][UpNext]_vars

\* The package's analysis outcome is incomplete: result.json has status
\* error or pending_cloud, or detections below the confidence threshold.
IncompleteOutcome(p) == p.result.exists /\ ~_is_complete(p.result)

\* A row was inserted in this step.
Ingests == Len(up_rows') = Len(up_rows) + 1

\* C39: the uploader ingests a package only when DONE is present, and a
\* package whose analysis outcome is incomplete is classified
\* pending_cloud_verification, never stored, at the moment it is ingested.
C39_IncompleteIsPending ==
  [][ Ingests =>
        LET row == up_rows'[Len(up_rows')] IN
        /\ pkg[row.event_id].done
        /\ IncompleteOutcome(pkg[row.event_id]) =>
             row.status = "pending_cloud_verification"
    ]_vars

\* C39 without the packages whose job raised in the worker.
C39_PendingUnlessRaised ==
  [][ Ingests =>
        LET row == up_rows'[Len(up_rows')] IN
        /\ pkg[row.event_id].done
        /\ (IncompleteOutcome(pkg[row.event_id]) /\ row.event_id \notin raised) =>
             row.status = "pending_cloud_verification"
    ]_vars

\* Rows of the incidents table made from package e.
RowsOf(e) == {i \in 1..Len(up_rows) : up_rows[i].event_id = e}

\* C40: over all passes of the uploader each package is inserted into the
\* incidents table at most once, also when a step after the insert fails
\* and the package is scanned again.
C40_InsertedOnce == \A e \in DOMAIN pkg : Cardinality(RowsOf(e)) <= 1

====
